---- MODULE Spec2Model ----
(***************************************************************************)
(* Sensors-info: request validation (validators.ts), the in-memory        *)
(* SensorsInfo of prj1 and the MongoDB-backed SensorsInfo/SensorsDao of    *)
(* prj3.                                                                   *)
(*                                                                         *)
(* Raw request values are strings.  A string is a TLA+ string; Chars gives *)
(* its characters and Code a character's UTF-16 code unit, so that the     *)
(* regular expressions, Number(), parseInt() and the string comparison     *)
(* operators are computed on the characters.                               *)
(* Numbers are kept in tenths (12.4 is 124) as [k |-> "num", v |-> 124];   *)
(* NaN and the infinities are values of their own.                         *)
(***************************************************************************)
EXTENDS Integers, Sequences, FiniteSets, TLC

VARIABLES
    variant,         \* which revision runs: "mem" (prj1) or "dao" (prj3)
    sensorTypes,     \* prj1 SensorsInfo.sensorTypes: own properties, in property order
    sensors,         \* prj1 SensorsInfo.sensors: own properties, in property order
    sensorReadings,  \* prj1 SensorsInfo.sensorReadings: sensorId -> array of readings
    db,              \* prj3 SensorsDao: the three collections, in insertion order
    last             \* the last call: [op, req, res]

vars == <<variant, sensorTypes, sensors, sensorReadings, db, last>>

(***************************************************************************)
(* Strings                                                                 *)
(***************************************************************************)
Chars(s) ==
    CASE s = "9"     -> <<"9">>
      [] s = "10"    -> <<"1", "0">>
      [] s = "10.0"  -> <<"1", "0", ".", "0">>
      [] s = "10."   -> <<"1", "0", ".">>
      [] s = "+10"   -> <<"+", "1", "0">>
      [] s = "-10"   -> <<"-", "1", "0">>
      [] s = "-1"    -> <<"-", "1">>
      [] s = "100"   -> <<"1", "0", "0">>
      [] s = "101"   -> <<"1", "0", "1">>
      [] s = "10x"   -> <<"1", "0", "x">>
      [] s = "100x"  -> <<"1", "0", "0", "x">>
      [] s = ".5"    -> <<".", "5">>
      [] s = "0"     -> <<"0">>
      [] s = "1"     -> <<"1">>
      [] s = "2"     -> <<"2">>
      [] s = "3"     -> <<"3">>
      [] s = "4"     -> <<"4">>
      [] s = "5"     -> <<"5">>
      [] s = "6"     -> <<"6">>
      [] s = "NaN"   -> <<"N", "a", "N">>
      [] s = "1x"    -> <<"1", "x">>
      [] s = "1.5"   -> <<"1", ".", "5">>
      [] s = "1000"  -> <<"1", "0", "0", "0">>
      [] s = "12.4"  -> <<"1", "2", ".", "4">>
      [] s = "13.4"  -> <<"1", "3", ".", "4">>
      [] s = "12"    -> <<"1", "2">>
      [] s = "13"    -> <<"1", "3">>
      [] s = "12.4x" -> <<"1", "2", ".", "4", "x">>
      [] s = "ab"    -> <<"a", "b">>
      [] s = "b"     -> <<"b">>
      [] s = "s2"    -> <<"s", "2">>
      [] s = "s10"   -> <<"s", "1", "0">>
      [] s = "m"     -> <<"m">>
      [] s = "n"     -> <<"n">>
      [] s = "q"     -> <<"q">>
      [] s = "u"     -> <<"u">>
      [] s = "constructor" ->
             <<"c", "o", "n", "s", "t", "r", "u", "c", "t", "o", "r">>

Digits == {"0", "1", "2", "3", "4", "5", "6", "7", "8", "9"}

DigitVal(c) ==
    CASE c = "0" -> 0 [] c = "1" -> 1 [] c = "2" -> 2 [] c = "3" -> 3
      [] c = "4" -> 4 [] c = "5" -> 5 [] c = "6" -> 6 [] c = "7" -> 7
      [] c = "8" -> 8 [] c = "9" -> 9

Code(c) ==
    CASE c \in Digits -> 48 + DigitVal(c)
      [] c = "+" -> 43 [] c = "-" -> 45 [] c = "." -> 46
      [] c = "a" -> 97 [] c = "b" -> 98 [] c = "c" -> 99
      [] c = "m" -> 109 [] c = "n" -> 110 [] c = "o" -> 111
      [] c = "q" -> 113 [] c = "r" -> 114 [] c = "s" -> 115
      [] c = "t" -> 116 [] c = "u" -> 117 [] c = "x" -> 120

RECURSIVE SeqLess(_, _)
SeqLess(a, b) ==
    IF b = <<>> THEN FALSE
    ELSE IF a = <<>> THEN TRUE
    ELSE IF Code(Head(a)) # Code(Head(b)) THEN Code(Head(a)) < Code(Head(b))
    ELSE SeqLess(Tail(a), Tail(b))

\* a < b on strings: by code units, a proper prefix first
StrLess(a, b) == SeqLess(Chars(a), Chars(b))

(***************************************************************************)
(* Numbers                                                                 *)
(***************************************************************************)
Num(v) == [k |-> "num", v |-> v]
NaN == [k |-> "nan", v |-> 0]
PosInf == [k |-> "inf", v |-> 1]
NegInf == [k |-> "inf", v |-> -1]

\* a <= b on numbers: false when either is NaN
LE(a, b) ==
    IF a.k = "nan" \/ b.k = "nan" THEN FALSE
    ELSE IF a.k = "inf" THEN a.v < 0 \/ (b.k = "inf" /\ b.v > 0)
    ELSE IF b.k = "inf" THEN b.v > 0
    ELSE a.v <= b.v

\* a < b on numbers
LT(a, b) ==
    IF a.k = "nan" \/ b.k = "nan" THEN FALSE
    ELSE IF a.k = "inf" THEN a.v < 0 /\ ~(b.k = "inf" /\ b.v < 0)
    ELSE IF b.k = "inf" THEN b.v > 0
    ELSE a.v < b.v

AllDigits(cs) == \A i \in 1..Len(cs) : cs[i] \in Digits

RECURSIVE DigitsVal(_)
DigitsVal(cs) ==
    IF cs = <<>> THEN 0
    ELSE 10 * DigitsVal(SubSeq(cs, 1, Len(cs) - 1)) + DigitVal(cs[Len(cs)])

\* position of the first "." of cs, or Len(cs) + 1
DotPos(cs) ==
    IF \E i \in 1..Len(cs) : cs[i] = "."
    THEN CHOOSE i \in 1..Len(cs) : cs[i] = "." /\ \A j \in 1..(i - 1) : cs[j] # "."
    ELSE Len(cs) + 1

Unsigned(cs) == IF cs # <<>> /\ Head(cs) \in {"+", "-"} THEN Tail(cs) ELSE cs
IntPart(cs) == SubSeq(cs, 1, DotPos(cs) - 1)
FracPart(cs) == SubSeq(cs, DotPos(cs) + 1, Len(cs))

\* the fraction digits in tenths (the model's strings have at most one)
FracTenths(fs) == IF fs = <<>> THEN 0 ELSE DigitVal(fs[1])

\* /^\d+$/
MatchesInteger(cs) == cs # <<>> /\ AllDigits(cs)

\* /^[-+]?\d+(\.\d*)?$/ on the unsigned rest u
MatchesUnsigned(u) ==
    /\ IntPart(u) # <<>>
    /\ AllDigits(IntPart(u))
    /\ AllDigits(FracPart(u))

MatchesNumber(cs) == MatchesUnsigned(Unsigned(cs))

\* a decimal StringNumericLiteral: [-+]? (\d+ (\.\d*)? | \.\d+)
IsDecimalUnsigned(u) ==
    /\ AllDigits(IntPart(u))
    /\ AllDigits(FracPart(u))
    /\ IntPart(u) # <<>> \/ FracPart(u) # <<>>

Magnitude(u) == 10 * DigitsVal(IntPart(u)) + FracTenths(FracPart(u))

Signed(cs, mag) == IF Head(cs) = "-" THEN Num(0 - mag) ELSE Num(mag)

NumberOfChars(cs, u) ==
    IF ~IsDecimalUnsigned(u) THEN NaN ELSE Signed(cs, Magnitude(u))

\* Number(s) of a string
Number(s) == NumberOfChars(Chars(s), Unsigned(Chars(s)))

\* the longest prefix of digits of cs
RECURSIVE DigitPrefix(_)
DigitPrefix(cs) ==
    IF cs = <<>> \/ Head(cs) \notin Digits THEN <<>>
    ELSE <<Head(cs)>> \o DigitPrefix(Tail(cs))

ParseIntOfChars(cs, ds) ==
    IF ds = <<>> THEN NaN ELSE Signed(cs, 10 * DigitsVal(ds))

\* parseInt(s, 10) of a string
ParseInt(s) == ParseIntOfChars(Chars(s), DigitPrefix(Unsigned(Chars(s))))

(***************************************************************************)
(* Results and errors (Errors.okResult / Errors.errResult)                 *)
(***************************************************************************)
Err(code, fields) == [code |-> code, fields |-> fields]
okResult(val) == [isOk |-> TRUE, val |-> val, errors |-> <<>>, thrown |-> FALSE]
errResult(errors) == [isOk |-> FALSE, val |-> <<>>, errors |-> errors, thrown |-> FALSE]
\* the call ended in an uncaught TypeError instead of returning a result
Thrown == [isOk |-> FALSE, val |-> <<>>, errors |-> <<>>, thrown |-> TRUE]

Codes(res) == [i \in 1..Len(res.errors) |-> res.errors[i].code]

(***************************************************************************)
(* General validators                                                      *)
(***************************************************************************)
\* a number check that lets every string pass
NUMBER_CHK_Any(s) == TRUE

NUMBER_CHK(s) == MatchesNumber(Chars(s))

INTEGER_CHK(s) == MatchesInteger(Chars(s))

\* the operand of the comparison: Number(req[id] ?? dflt)
Operand(req, id, dflt) == IF id \in DOMAIN req THEN Number(req[id]) ELSE dflt

\* the range check with < for <=
rangeChk_Strict(req, minId, maxId) ==
    ~LT(Operand(req, minId, NegInf), Operand(req, maxId, PosInf))

\* the range check that never reports
rangeChk_Never(req, minId, maxId) == FALSE

\* TRUE when the check reports BAD_RANGE
rangeChk(req, minId, maxId) ==
    ~LE(Operand(req, minId, NegInf), Operand(req, maxId, PosInf))

\* a field of a FlatReqChecks: required unless it declares a default
Field(id, required, chk) == [id |-> id, required |-> required, chk |-> chk]

FieldError(req, f) ==
    IF f.id \notin DOMAIN req
    THEN IF f.required THEN "REQUIRED" ELSE "OK"
    ELSE IF f.chk = "NUMBER" /\ ~NUMBER_CHK(req[f.id]) THEN "BAD_VAL"
    ELSE IF f.chk = "INTEGER" /\ ~INTEGER_CHK(req[f.id]) THEN "BAD_VAL"
    ELSE "OK"

FieldIds(checks) == {checks.fields[i].id : i \in 1..Len(checks.fields)}

FieldOf(checks, id) ==
    checks.fields[CHOOSE i \in 1..Len(checks.fields) : checks.fields[i].id = id]

\* the field of that name passed its own check, or took its default
Resolved(req, checks, id) ==
    id \in FieldIds(checks) /\ FieldError(req, FieldOf(checks, id)) = "OK"

IsError(e) == e.code # "OK"

\* the errors of the fields, in the order the fields are declared
FieldErrors(req, checks) ==
    SelectSeq([i \in 1..Len(checks.fields) |->
                   Err(FieldError(req, checks.fields[i]), <<checks.fields[i].id>>)],
              IsError)

CrossError(req, checks, c) ==
    IF Resolved(req, checks, c[1]) /\ Resolved(req, checks, c[2])
           /\ rangeChk(req, c[1], c[2])
    THEN "BAD_RANGE" ELSE "OK"

\* the errors of the cross-field checks, which run on resolved fields only
CrossErrors(req, checks) ==
    SelectSeq([i \in 1..Len(checks.chk) |->
                   Err(CrossError(req, checks, checks.chk[i]), checks.chk[i])],
              IsError)

Checked(req, checks, errors) ==
    IF errors # <<>> THEN errResult(errors)
    ELSE okResult([id \in FieldIds(checks) \cap DOMAIN req |-> req[id]])

\* Checkers.checkFlatReq of cs544-js-utils
checkFlatReq(req, checks) ==
    Checked(req, checks, FieldErrors(req, checks) \o CrossErrors(req, checks))

(***************************************************************************)
(* Sensor types, sensors, sensor readings (validators.ts)                  *)
(***************************************************************************)
Range(min, max) == [min |-> min, max |-> max]

\* a subrange test that every range passes
isSubrange_Always(this, superRange) == TRUE

\* the subrange test with < for <=
isSubrange_Strict(this, superRange) ==
    LT(superRange.min, this.min) /\ LT(this.max, superRange.max)

isSubrange(this, superRange) ==
    LE(superRange.min, this.min) /\ LE(this.max, superRange.max)

ADD_SENSOR_TYPE_CHECKS ==
    [fields |-> << Field("id", TRUE, "NONE"),
                   Field("manufacturer", TRUE, "NONE"),
                   Field("modelNumber", TRUE, "NONE"),
                   Field("quantity", TRUE, "NONE"),
                   Field("unit", TRUE, "NONE"),
                   Field("min", TRUE, "NUMBER"),
                   Field("max", TRUE, "NUMBER") >>,
     chk |-> << <<"min", "max">> >>]

SensorTypeOf(req, validResult) ==
    IF ~validResult.isOk THEN validResult
    ELSE okResult([id |-> req.id,
                   manufacturer |-> req.manufacturer,
                   modelNumber |-> req.modelNumber,
                   quantity |-> req.quantity,
                   unit |-> req.unit,
                   limits |-> Range(Number(req.min), Number(req.max))])

makeSensorType(req) == SensorTypeOf(req, checkFlatReq(req, ADD_SENSOR_TYPE_CHECKS))

ADD_SENSOR_CHECKS ==
    [fields |-> << Field("id", TRUE, "NONE"),
                   Field("sensorTypeId", TRUE, "NONE"),
                   Field("period", TRUE, "INTEGER"),
                   Field("min", TRUE, "NUMBER"),
                   Field("max", TRUE, "NUMBER") >>,
     chk |-> << <<"min", "max">> >>]

SensorOf(req, validResult) ==
    IF ~validResult.isOk THEN validResult
    ELSE okResult([id |-> req.id,
                   sensorTypeId |-> req.sensorTypeId,
                   period |-> Number(req.period),
                   expected |-> Range(Number(req.min), Number(req.max))])

makeSensor(req) == SensorOf(req, checkFlatReq(req, ADD_SENSOR_CHECKS))

ADD_SENSOR_READING_CHECKS ==
    [fields |-> << Field("sensorId", TRUE, "NONE"),
                   Field("timestamp", TRUE, "INTEGER"),
                   Field("value", TRUE, "NUMBER") >>,
     chk |-> << >>]

SensorReadingOf(req, validResult) ==
    IF ~validResult.isOk THEN validResult
    ELSE okResult([sensorId |-> req.sensorId,
                   timestamp |-> Number(req.timestamp),
                   value |-> Number(req.value)])

makeSensorReading(req) ==
    SensorReadingOf(req, checkFlatReq(req, ADD_SENSOR_READING_CHECKS))

FIND_SENSOR_TYPES_CHECKS ==
    [fields |-> << Field("id", FALSE, "NONE"),
                   Field("manufacturer", FALSE, "NONE"),
                   Field("modelNumber", FALSE, "NONE"),
                   Field("quantity", FALSE, "NONE"),
                   Field("unit", FALSE, "NONE") >>,
     chk |-> << >>]

FIND_SENSORS_CHECKS ==
    [fields |-> << Field("id", FALSE, "NONE"),
                   Field("sensorTypeId", FALSE, "NONE") >>,
     chk |-> << >>]

\* the checks of findSensorReadings with a default for sensorId
FIND_SENSOR_READINGS_CHECKS_SensorIdOptional ==
    [fields |-> << Field("sensorId", FALSE, "NONE"),
                   Field("minTimestamp", FALSE, "INTEGER"),
                   Field("maxTimestamp", FALSE, "INTEGER"),
                   Field("minValue", FALSE, "NUMBER"),
                   Field("maxValue", FALSE, "NUMBER") >>,
     chk |-> << <<"minTimestamp", "maxTimestamp">>,
                <<"minValue", "maxValue">> >>]

FIND_SENSOR_READINGS_CHECKS ==
    [fields |-> << Field("sensorId", TRUE, "NONE"),
                   Field("minTimestamp", FALSE, "INTEGER"),
                   Field("maxTimestamp", FALSE, "INTEGER"),
                   Field("minValue", FALSE, "NUMBER"),
                   Field("maxValue", FALSE, "NUMBER") >>,
     chk |-> << <<"minTimestamp", "maxTimestamp">>,
                <<"minValue", "maxValue">> >>]

validateFindCommand(cmd, req) ==
    checkFlatReq(req, CASE cmd = "findSensorTypes" -> FIND_SENSOR_TYPES_CHECKS
                        [] cmd = "findSensors" -> FIND_SENSORS_CHECKS
                        [] cmd = "findSensorReadings" -> FIND_SENSOR_READINGS_CHECKS)

(***************************************************************************)
(* Sorting (Array.prototype.sort with a comparator; stable)                *)
(***************************************************************************)
\* the comparator is > 0: a must come after b
IdAfter(a, b) == StrLess(b.id, a.id)
TimestampAfter(a, b) == LT(b.timestamp, a.timestamp)
After(a, b, by) == IF by = "id" THEN IdAfter(a, b) ELSE TimestampAfter(a, b)

RECURSIVE Insert(_, _, _)
Insert(x, sorted, by) ==
    IF sorted = <<>> THEN <<x>>
    ELSE IF After(Head(sorted), x, by) THEN <<x>> \o sorted
    ELSE <<Head(sorted)>> \o Insert(x, Tail(sorted), by)

RECURSIVE Sort(_, _)
Sort(seq, by) ==
    IF seq = <<>> THEN <<>>
    ELSE Insert(seq[Len(seq)], Sort(SubSeq(seq, 1, Len(seq) - 1), by), by)

\* no sort: the order of the store
SortById_None(seq) == seq

SortById(seq) == Sort(seq, "id")
SortByTimestamp(seq) == Sort(seq, "timestamp")

(***************************************************************************)
(* prj1: the in-memory SensorsInfo.  sensorTypes and sensors are objects   *)
(* created by {} and indexed by id: a sequence of the own properties in    *)
(* property order; a read of a key that is no own property finds the       *)
(* property Object.prototype has of that name, if any.                     *)
(***************************************************************************)
ObjectPrototypeKeys ==
    {"constructor", "toString", "toLocaleString", "valueOf", "hasOwnProperty",
     "isPrototypeOf", "propertyIsEnumerable", "__proto__"}

OwnKeys(obj) == {obj[i].id : i \in 1..Len(obj)}
GetOwn(obj, key) == obj[CHOOSE i \in 1..Len(obj) : obj[i].id = key]
\* a lookup that finds every key
Truthy_Always(obj, key) == TRUE

\* obj[key] is truthy
Truthy(obj, key) == key \in OwnKeys(obj) \/ key \in ObjectPrototypeKeys
\* a store that appends whatever the key
Put_Append(obj, key, val) == Append(obj, val)

\* obj[key] = val
Put(obj, key, val) ==
    IF key \in OwnKeys(obj)
    THEN [i \in 1..Len(obj) |-> IF obj[i].id = key THEN val ELSE obj[i]]
    ELSE Append(obj, val)

\* a findIndex that finds nothing
findIndex_None(array, timestamp) == 0

\* array.findIndex(r => r.timestamp === timestamp), 0 when there is none
findIndex(array, timestamp) ==
    IF \E i \in 1..Len(array) : array[i].timestamp = timestamp
    THEN CHOOSE i \in 1..Len(array) :
             /\ array[i].timestamp = timestamp
             /\ \A j \in 1..(i - 1) : array[j].timestamp # timestamp
    ELSE 0

Called(op, req, res) == [op |-> op, req |-> req, res |-> res]

\* no call is in progress: the caller has taken the last result
NoCall == Called("none", <<>>, okResult(<<>>))

\* the revision v is the one running and it is free to take a call
Ready(v) == variant = v /\ last = NoCall

clear ==
    /\ Ready("mem")
    /\ sensorTypes' = <<>>
    /\ sensors' = <<>>
    /\ sensorReadings' = <<>>
    /\ last' = Called("clear", <<>>, okResult(<<>>))
    /\ UNCHANGED <<variant, db>>

addSensorType(req) ==
    /\ Ready("mem")
    /\ LET sensorTypeResult == makeSensorType(req) IN
         IF ~sensorTypeResult.isOk
         THEN /\ last' = Called("addSensorType", req, sensorTypeResult)
              /\ UNCHANGED sensorTypes
         ELSE LET sensorType == sensorTypeResult.val IN
              /\ sensorTypes' = Put(sensorTypes, sensorType.id, sensorType)
              /\ last' = Called("addSensorType", req, okResult(<<sensorType>>))
    /\ UNCHANGED <<variant, sensors, sensorReadings, db>>

addSensor(req) ==
    /\ Ready("mem")
    /\ LET sensorResult == makeSensor(req) IN
         IF ~sensorResult.isOk
         THEN /\ last' = Called("addSensor", req, sensorResult)
              /\ UNCHANGED sensors
         ELSE LET sensor == sensorResult.val IN
              IF Truthy(sensorTypes, sensor.sensorTypeId)
              THEN IF sensor.sensorTypeId \notin OwnKeys(sensorTypes)
                   THEN \* .limits of the inherited property is undefined
                        /\ last' = Called("addSensor", req, Thrown)
                        /\ UNCHANGED sensors
                   ELSE IF isSubrange(sensor.expected,
                                      GetOwn(sensorTypes, sensor.sensorTypeId).limits)
                   THEN /\ sensors' = Put(sensors, sensor.id, sensor)
                        /\ last' = Called("addSensor", req, okResult(<<sensor>>))
                   ELSE /\ last' = Called("addSensor", req,
                                          errResult(<<Err("BAD_RANGE", <<>>)>>))
                        /\ UNCHANGED sensors
              ELSE /\ last' = Called("addSensor", req,
                                     errResult(<<Err("BAD_ID", <<>>)>>))
                   /\ UNCHANGED sensors
    /\ UNCHANGED <<variant, sensorTypes, sensorReadings, db>>

addSensorReading(req) ==
    /\ Ready("mem")
    /\ LET sensorReadingResult == makeSensorReading(req) IN
         IF ~sensorReadingResult.isOk
         THEN /\ last' = Called("addSensorReading", req, sensorReadingResult)
              /\ UNCHANGED sensorReadings
         ELSE LET sensorReading == sensorReadingResult.val
                  sensorId == sensorReading.sensorId
              IN
              IF ~Truthy(sensors, sensorId)
              THEN /\ last' = Called("addSensorReading", req,
                                     errResult(<<Err("BAD_ID", <<>>)>>))
                   /\ UNCHANGED sensorReadings
              ELSE IF sensorId \in DOMAIN sensorReadings
              THEN LET index == findIndex(sensorReadings[sensorId],
                                          sensorReading.timestamp)
                   IN
                   /\ sensorReadings' =
                        [sensorReadings EXCEPT ![sensorId] =
                            IF index >= 1
                            THEN [@ EXCEPT ![index] = sensorReading]
                            ELSE Append(@, sensorReading)]
                   /\ last' = Called("addSensorReading", req,
                                     okResult(<<sensorReading>>))
              ELSE IF sensorId \in ObjectPrototypeKeys
              THEN \* the inherited property has no findIndex
                   /\ last' = Called("addSensorReading", req, Thrown)
                   /\ UNCHANGED sensorReadings
              ELSE /\ sensorReadings' =
                        [k \in DOMAIN sensorReadings \cup {sensorId} |->
                            IF k = sensorId THEN <<sensorReading>>
                            ELSE sensorReadings[k]]
                   /\ last' = Called("addSensorReading", req,
                                     okResult(<<sensorReading>>))
    /\ UNCHANGED <<variant, sensorTypes, sensors, db>>

\* a filter that lets every entity pass
MatchesFilter_All(current, filterReq) == TRUE

\* the filter of findSensorTypes and findSensors
MatchesFilter(current, filterReq) ==
    \A filterFieldName \in DOMAIN filterReq :
        ~(/\ filterFieldName \in DOMAIN current
          /\ current[filterFieldName] # ""
          /\ filterReq[filterFieldName] # current[filterFieldName])

Filtered(obj, filterReq) ==
    SelectSeq(obj, LAMBDA current : MatchesFilter(current, filterReq))

findSensorTypes(req) ==
    /\ Ready("mem")
    /\ LET validResult == validateFindCommand("findSensorTypes", req) IN
         last' = Called("findSensorTypes", req,
                        IF ~validResult.isOk THEN validResult
                        ELSE okResult(SortById(Filtered(sensorTypes, validResult.val))))
    /\ UNCHANGED <<variant, sensorTypes, sensors, sensorReadings, db>>

findSensors(req) ==
    /\ Ready("mem")
    /\ LET validResult == validateFindCommand("findSensors", req) IN
         last' = Called("findSensors", req,
                        IF ~validResult.isOk THEN validResult
                        ELSE okResult(SortById(Filtered(sensors, validResult.val))))
    /\ UNCHANGED <<variant, sensorTypes, sensors, sensorReadings, db>>

\* the four tests of findSensorReadings on one reading
ReadingPasses(r, filterReq) ==
    /\ ~("minTimestamp" \in DOMAIN filterReq
            /\ LT(r.timestamp, ParseInt(filterReq.minTimestamp)))
    /\ ~("maxTimestamp" \in DOMAIN filterReq
            /\ LT(ParseInt(filterReq.maxTimestamp), r.timestamp))
    /\ ~("minValue" \in DOMAIN filterReq
            /\ LT(r.value, ParseInt(filterReq.minValue)))
    /\ ~("maxValue" \in DOMAIN filterReq
            /\ LT(ParseInt(filterReq.maxValue), r.value))

\* the property key that obj[id] is: "undefined" for a property obj lacks
Key(obj, id) == IF id \in DOMAIN obj THEN obj[id] ELSE "undefined"

FoundReadings(filterReq, sensorId) ==
    IF sensorId \in DOMAIN sensorReadings
    THEN okResult(SortByTimestamp(
             SelectSeq(sensorReadings[sensorId],
                       LAMBDA r : ReadingPasses(r, filterReq))))
    ELSE IF sensorId \in ObjectPrototypeKeys
    THEN Thrown  \* for-of over the inherited property
    ELSE okResult(<<>>)

FindReadingsResult(validResult) ==
    IF ~validResult.isOk THEN validResult
    ELSE FoundReadings(validResult.val, Key(validResult.val, "sensorId"))

findSensorReadings(req) ==
    /\ Ready("mem")
    /\ last' = Called("findSensorReadings", req,
                      FindReadingsResult(validateFindCommand("findSensorReadings", req)))
    /\ UNCHANGED <<variant, sensorTypes, sensors, sensorReadings, db>>

(***************************************************************************)
(* prj3: search criteria (the validators with paging fields), SensorsDao   *)
(* over three MongoDB collections, and the SensorsInfo built on it.        *)
(***************************************************************************)
DEFAULT_COUNT == 5
DEFAULT_INDEX == 0

PAGING_FIELDS == << Field("count", FALSE, "NUMBER"), Field("index", FALSE, "NUMBER") >>

SENSOR_TYPE_SEARCH_CHECKS ==
    [fields |-> FIND_SENSOR_TYPES_CHECKS.fields \o PAGING_FIELDS, chk |-> << >>]

SENSOR_SEARCH_CHECKS ==
    [fields |-> FIND_SENSORS_CHECKS.fields \o PAGING_FIELDS, chk |-> << >>]

SENSOR_READING_SEARCH_CHECKS ==
    [fields |-> FIND_SENSOR_READINGS_CHECKS.fields \o PAGING_FIELDS,
     chk |-> FIND_SENSOR_READINGS_CHECKS.chk]

\* the count and index properties a search constructor sets
Paging(req) ==
    [k \in {"count", "index"} \cap DOMAIN req |-> Number(req[k])]

\* f @@ g without the TLC module's operator: g's keys win
Merge(f, g) ==
    [k \in DOMAIN f \cup DOMAIN g |-> IF k \in DOMAIN g THEN g[k] ELSE f[k]]

Only(req, keys) == [k \in keys \cap DOMAIN req |-> req[k]]

SensorTypeSearch_make(req) ==
    LET validResult == checkFlatReq(req, SENSOR_TYPE_SEARCH_CHECKS) IN
        IF ~validResult.isOk THEN validResult
        ELSE okResult(Merge(Only(validResult.val, {"id", "manufacturer", "modelNumber",
                                                   "quantity", "unit"}),
                            Paging(validResult.val)))

SensorSearch_make(req) ==
    LET validResult == checkFlatReq(req, SENSOR_SEARCH_CHECKS) IN
        IF ~validResult.isOk THEN validResult
        ELSE okResult(Merge(Only(validResult.val, {"id", "sensorTypeId"}),
                            Paging(validResult.val)))

SensorReadingSearch_make(req) ==
    LET validResult == checkFlatReq(req, SENSOR_READING_SEARCH_CHECKS) IN
        IF ~validResult.isOk THEN validResult
        ELSE LET v == validResult.val
                 Bound(k, dflt) == IF k \in DOMAIN v THEN Number(v[k]) ELSE dflt
             IN  okResult(Merge([sensorId |-> v.sensorId,
                                 minTimestamp |-> Bound("minTimestamp", NegInf),
                                 maxTimestamp |-> Bound("maxTimestamp", PosInf),
                                 minValue |-> Bound("minValue", NegInf),
                                 maxValue |-> Bound("maxValue", PosInf)],
                                Paging(v)))

\* cursor.skip(index).limit(count); limit(0) is no limit.
IsNat(n) == n.k = "num" /\ n.v >= 0 /\ n.v % 10 = 0

\* a cursor without skip and limit
Page_All(sorted, search) == sorted

\* a cursor that skips nothing
Page_NoSkip(sorted, search) ==
    SubSeq(sorted, 1, IF "count" \in DOMAIN search /\ search.count.v \div 10 < Len(sorted)
                      THEN search.count.v \div 10 ELSE Len(sorted))

Page(sorted, search) ==
    LET count == IF "count" \in DOMAIN search THEN search.count ELSE Num(10 * DEFAULT_COUNT)
        index == IF "index" \in DOMAIN search THEN search.index ELSE Num(10 * DEFAULT_INDEX)
        from == (index.v \div 10) + 1
        to == IF count.v = 0 THEN Len(sorted) ELSE (index.v \div 10) + (count.v \div 10)
    IN  SubSeq(sorted, from, IF to > Len(sorted) THEN Len(sorted) ELSE to)

Pageable(search) ==
    /\ "count" \in DOMAIN search => IsNat(search.count)
    /\ "index" \in DOMAIN search => IsNat(search.index)

\* the document matches every field of the query
MatchesQuery(doc, query) == \A k \in DOMAIN query : doc[k] = query[k]

\* the documents without _id
Projected(docs) ==
    [i \in 1..Len(docs) |-> [k \in DOMAIN docs[i] \ {"_id"} |-> docs[i][k]]]

\* SensorsDao.findSensorTypes and SensorsDao.findSensors
DaoFindById(collection, search) ==
    LET query == Merge(Only(search, DOMAIN search \ {"count", "index"}),
                       IF "id" \in DOMAIN search /\ search.id # ""
                       THEN [_id |-> search.id] ELSE <<>>)
        found == SelectSeq(collection, LAMBDA doc : MatchesQuery(doc, query))
    IN  IF ~Pageable(search) THEN errResult(<<Err("DB", <<>>)>>)
        ELSE okResult(Page(SortById(Projected(found)), search))

DaoFindSensorTypes(search) == DaoFindById(db.sensorTypes, search)

DaoFindSensors(search) == DaoFindById(db.sensors, search)

DaoFindSensorReadings(search) ==
    LET found == SelectSeq(db.sensorReadings, LAMBDA doc :
                     /\ doc.sensorId = search.sensorId
                     /\ LE(search.minTimestamp, doc.timestamp)
                     /\ LE(doc.timestamp, search.maxTimestamp)
                     /\ LE(search.minValue, doc.value)
                     /\ LE(doc.value, search.maxValue))
    IN  IF ~Pageable(search) THEN errResult(<<Err("DB", <<>>)>>)
        ELSE okResult(Page(SortByTimestamp(found), search))

\* a collection without the unique index on _id
DuplicateId_Never(collection, id) == FALSE

\* insertOne fails with code 11000 on a duplicate _id
DuplicateId(collection, id) ==
    \E i \in 1..Len(collection) : collection[i]._id = id

\* the unique index { sensorId: 1, timestamp: 1 } of sensorReadings
DuplicateReading(collection, r) ==
    \E i \in 1..Len(collection) :
        collection[i].sensorId = r.sensorId /\ collection[i].timestamp = r.timestamp

WithId(entity) == Merge(entity, [_id |-> entity.id])

\* SensorsDao.addSensorType, with the call's outcome in last
DaoAddSensorType(op, req, sensorType) ==
    IF DuplicateId(db.sensorTypes, sensorType.id)
    THEN /\ last' = Called(op, req, errResult(<<Err("EXISTS", <<>>)>>))
         /\ UNCHANGED db
    ELSE /\ db' = [db EXCEPT !.sensorTypes = Append(@, WithId(sensorType))]
         /\ last' = Called(op, req, okResult(sensorType))

\* an insert that stores the document and then reports the duplicate
DaoAddSensor_Stored(op, req, sensor) ==
    /\ db' = [db EXCEPT !.sensors = Append(@, WithId(sensor))]
    /\ last' = Called(op, req, IF DuplicateId(db.sensors, sensor.id)
                               THEN errResult(<<Err("EXISTS", <<>>)>>)
                               ELSE okResult(sensor))

DaoAddSensor(op, req, sensor) ==
    IF DuplicateId(db.sensors, sensor.id)
    THEN /\ last' = Called(op, req, errResult(<<Err("EXISTS", <<>>)>>))
         /\ UNCHANGED db
    ELSE /\ db' = [db EXCEPT !.sensors = Append(@, WithId(sensor))]
         /\ last' = Called(op, req, okResult(sensor))

DaoAddSensorReading(op, req, sensorReading) ==
    IF DuplicateReading(db.sensorReadings, sensorReading)
    THEN /\ last' = Called(op, req, errResult(<<Err("EXISTS", <<>>)>>))
         /\ UNCHANGED db
    ELSE /\ db' = [db EXCEPT !.sensorReadings = Append(@, sensorReading)]
         /\ last' = Called(op, req, okResult(sensorReading))

EmptyDb == [sensorTypes |-> <<>>, sensors |-> <<>>, sensorReadings |-> <<>>]

Prj3Clear ==
    /\ Ready("dao")
    /\ db' = EmptyDb
    /\ last' = Called("clear", <<>>, okResult(<<>>))
    /\ UNCHANGED <<variant, sensorTypes, sensors, sensorReadings>>

Prj3AddSensorType(req) ==
    /\ Ready("dao")
    /\ LET sensorTypeResult == makeSensorType(req) IN
         IF ~sensorTypeResult.isOk
         THEN /\ last' = Called("addSensorType", req, sensorTypeResult)
              /\ UNCHANGED db
         ELSE DaoAddSensorType("addSensorType", req, sensorTypeResult.val)
    /\ UNCHANGED <<variant, sensorTypes, sensors, sensorReadings>>

Prj3AddSensor(req) ==
    /\ Ready("dao")
    /\ LET sensorResult == makeSensor(req) IN
         IF ~sensorResult.isOk
         THEN /\ last' = Called("addSensor", req, sensorResult)
              /\ UNCHANGED db
         ELSE LET sensor == sensorResult.val
                  sensorTypesResult == DaoFindSensorTypes([id |-> sensor.sensorTypeId])
              IN
              IF ~sensorTypesResult.isOk
              THEN /\ last' = Called("addSensor", req, sensorTypesResult)
                   /\ UNCHANGED db
              ELSE IF Len(sensorTypesResult.val) # 1
              THEN /\ last' = Called("addSensor", req,
                                     errResult(<<Err("BAD_ID", <<"sensorTypeId">>)>>))
                   /\ UNCHANGED db
              ELSE IF ~isSubrange(sensor.expected, sensorTypesResult.val[1].limits)
              THEN /\ last' = Called("addSensor", req,
                                     errResult(<<Err("BAD_RANGE", <<"min">>)>>))
                   /\ UNCHANGED db
              ELSE DaoAddSensor("addSensor", req, sensor)
    /\ UNCHANGED <<variant, sensorTypes, sensors, sensorReadings>>

Prj3AddSensorReading(req) ==
    /\ Ready("dao")
    /\ LET sensorReadingResult == makeSensorReading(req) IN
         IF ~sensorReadingResult.isOk
         THEN /\ last' = Called("addSensorReading", req, sensorReadingResult)
              /\ UNCHANGED db
         ELSE LET sensorReading == sensorReadingResult.val
                  sensorsResult == DaoFindSensors([id |-> sensorReading.sensorId])
              IN
              IF ~sensorsResult.isOk
              THEN /\ last' = Called("addSensorReading", req, sensorsResult)
                   /\ UNCHANGED db
              ELSE IF Len(sensorsResult.val) # 1
              THEN /\ last' = Called("addSensorReading", req,
                                     errResult(<<Err("BAD_ID", <<"sensorId">>)>>))
                   /\ UNCHANGED db
              ELSE DaoAddSensorReading("addSensorReading", req, sensorReading)
    /\ UNCHANGED <<variant, sensorTypes, sensors, sensorReadings>>

Prj3FindSensorTypes(req) ==
    /\ Ready("dao")
    /\ LET validResult == SensorTypeSearch_make(req) IN
         last' = Called("findSensorTypes", req,
                        IF ~validResult.isOk THEN validResult
                        ELSE DaoFindSensorTypes(validResult.val))
    /\ UNCHANGED <<variant, sensorTypes, sensors, sensorReadings, db>>

Prj3FindSensors(req) ==
    /\ Ready("dao")
    /\ LET validResult == SensorSearch_make(req) IN
         last' = Called("findSensors", req,
                        IF ~validResult.isOk THEN validResult
                        ELSE DaoFindSensors(validResult.val))
    /\ UNCHANGED <<variant, sensorTypes, sensors, sensorReadings, db>>

Prj3FindSensorReadings(req) ==
    /\ Ready("dao")
    /\ LET validResult == SensorReadingSearch_make(req) IN
         last' = Called("findSensorReadings", req,
                        IF ~validResult.isOk THEN validResult
                        ELSE DaoFindSensorReadings(validResult.val))
    /\ UNCHANGED <<variant, sensorTypes, sensors, sensorReadings, db>>

(***************************************************************************)
(* prj3: web services (sensors-ws.ts).  The mapping of error results to     *)
(* HTTP statuses, and the handlers that answer a GET for one sensor type    *)
(* or one sensor.  A response is the HTTP status sent and the JSON envelope *)
(* in its body; the links of an envelope are left out.                      *)
(***************************************************************************)
\* the statuses of the http-status package that the handlers use
STATUS ==
    [OK |-> 200, CREATED |-> 201, BAD_REQUEST |-> 400, UNAUTHORIZED |-> 401,
     NOT_FOUND |-> 404, CONFLICT |-> 409, INTERNAL_SERVER_ERROR |-> 500]

ERROR_MAP ==
    [EXISTS |-> STATUS.CONFLICT,
     NOT_FOUND |-> STATUS.NOT_FOUND,
     BAD_REQ |-> STATUS.BAD_REQUEST,
     AUTH |-> STATUS.UNAUTHORIZED,
     DB |-> STATUS.INTERNAL_SERVER_ERROR,
     INTERNAL |-> STATUS.INTERNAL_SERVER_ERROR]

\* errStatus of getHttpStatus: -1 for an error without code, ERROR_MAP[code]
\* otherwise; for a code the map lacks that is undefined, which is neither
\* > 0 nor === 500, as 0 is
ErrStatus(code) ==
    IF code = "undefined" THEN -1
    ELSE IF code \in DOMAIN ERROR_MAP THEN ERROR_MAP[code]
    ELSE 0

\* the loop of getHttpStatus over the errors that remain
RECURSIVE StatusAfter(_, _)
StatusAfter(errors, status) ==
    IF errors = <<>> THEN status
    ELSE StatusAfter(Tail(errors),
             IF ErrStatus(Head(errors).code) = STATUS.INTERNAL_SERVER_ERROR
             THEN STATUS.INTERNAL_SERVER_ERROR
             ELSE IF ErrStatus(Head(errors).code) > 0 /\ status = 0
             THEN ErrStatus(Head(errors).code)
             ELSE status)

\* a mapping in which the first status found stays
getHttpStatus_First(errors) ==
    IF SelectSeq(errors, LAMBDA err : ErrStatus(err.code) > 0) = <<>>
    THEN STATUS.BAD_REQUEST
    ELSE ErrStatus(SelectSeq(errors, LAMBDA err : ErrStatus(err.code) > 0)[1].code)

getHttpStatus(errors) ==
    IF StatusAfter(errors, 0) # 0 THEN StatusAfter(errors, 0)
    ELSE STATUS.BAD_REQUEST

\* the envelope of an error; its status is the HTTP status sent
ErrorEnvelope(status, errors) ==
    [http |-> status,
     body |-> [isOk |-> FALSE, status |-> status, errors |-> errors]]

\* err is an error result, or something else that was thrown
mapResultErrors(err) ==
    IF err.thrown
    THEN ErrorEnvelope(getHttpStatus(<<Err("UNKNOWN", <<>>)>>),
                       <<Err("UNKNOWN", <<>>)>>)
    ELSE ErrorEnvelope(getHttpStatus(err.errors), err.errors)

\* res.json sends status 200
selfResult(result) ==
    [http |-> STATUS.OK,
     body |-> [isOk |-> TRUE, status |-> STATUS.OK, result |-> result]]

\* a handler that answers with the first of whatever was found
GetResponse_Any(result, id) ==
    IF result.isOk /\ Len(result.val) >= 1 THEN selfResult(result.val[1])
    ELSE selfResult(<<>>)

\* the answer of doGetSensorType and doGetSensor to the result of the find
GetResponse(result, id) ==
    IF ~result.isOk THEN mapResultErrors(result)
    ELSE IF Len(result.val) = 1 THEN selfResult(result.val[1])
    ELSE ErrorEnvelope(STATUS.NOT_FOUND, <<Err("NOT_FOUND", <<>>)>>)

\* SensorsInfo.findSensorTypes and SensorsInfo.findSensors, as the handlers
\* call them
FoundSensorTypes(req, validResult) ==
    IF ~validResult.isOk THEN validResult ELSE DaoFindSensorTypes(validResult.val)

FoundSensors(req, validResult) ==
    IF ~validResult.isOk THEN validResult ELSE DaoFindSensors(validResult.val)

doGetSensorType(sensorTypeId) ==
    /\ Ready("dao")
    /\ last' = Called("doGetSensorType", [sensorTypeId |-> sensorTypeId],
                      GetResponse(FoundSensorTypes([id |-> sensorTypeId],
                                      SensorTypeSearch_make([id |-> sensorTypeId])),
                                  sensorTypeId))
    /\ UNCHANGED <<variant, sensorTypes, sensors, sensorReadings, db>>

doGetSensor(sensorId) ==
    /\ Ready("dao")
    /\ last' = Called("doGetSensor", [sensorId |-> sensorId],
                      GetResponse(FoundSensors([id |-> sensorId],
                                      SensorSearch_make([id |-> sensorId])),
                                  sensorId))
    /\ UNCHANGED <<variant, sensorTypes, sensors, sensorReadings, db>>

\* Number(q[k] ?? dflt) of a query
QueryNumber(q, k, dflt) == IF k \in DOMAIN q THEN Number(q[k]) ELSE Num(10 * dflt)

\* n + m on numbers
Plus(n, m) ==
    IF n.k = "nan" \/ m.k = "nan" THEN NaN
    ELSE IF n.k = "inf" THEN n
    ELSE IF m.k = "inf" THEN m
    ELSE Num(n.v + m.v)

\* String(n), for NaN and the small naturals that paging reaches
NumberToString(n) ==
    IF n.k = "nan" THEN "NaN"
    ELSE CASE n.v = 0 -> "0" [] n.v = 10 -> "1" [] n.v = 20 -> "2"
           [] n.v = 30 -> "3" [] n.v = 40 -> "4" [] n.v = 50 -> "5"
           [] n.v = 60 -> "6"

\* the query of a paging link: the request's, with index and count set
LinkQuery(q, index, count) ==
    Merge(q, [index |-> NumberToString(index), count |-> NumberToString(count)])

\* no link: pageLink returns undefined
NoLink == <<>>

\* pageLink for dir = 1
NextLink(q, nResults, count, index0) ==
    IF LE(Num(10 * nResults), count) THEN NoLink
    ELSE LinkQuery(q, Plus(index0, count), count)

\* pageLink for dir = -1
PrevLink(q, nResults, count, index0) ==
    IF LE(index0, Num(0)) THEN NoLink
    ELSE LinkQuery(q, IF LT(index0, count) THEN Num(0)
                      ELSE Num(index0.v - count.v), count)

pageLink(q, nResults, dir) ==
    IF dir > 0
    THEN NextLink(q, nResults, QueryNumber(q, "count", DEFAULT_COUNT),
                  QueryNumber(q, "index", 0))
    ELSE PrevLink(q, nResults, QueryNumber(q, "count", DEFAULT_COUNT),
                  QueryNumber(q, "index", 0))

\* the links that are defined, by name
NavLinks(next, prev) ==
    [k \in {x \in {"next"} : next # NoLink} \cup {x \in {"prev"} : prev # NoLink}
       |-> IF k = "next" THEN next ELSE prev]

\* results.slice(0, count)
Slice(results, count) ==
    SubSeq(results, 1, IF count.k = "num" /\ count.v \div 10 < Len(results)
                       THEN (IF count.v < 0 THEN 0 ELSE count.v \div 10)
                       ELSE IF count.k = "nan" THEN 0 ELSE Len(results))

\* a paged envelope that never has a next link
pagedResult_NoNext(q, results) ==
    [http |-> STATUS.OK,
     body |-> [isOk |-> TRUE, status |-> STATUS.OK,
               links |-> NavLinks(NoLink, pageLink(q, Len(results), -1)),
               result |-> [i \in 1..Len(Slice(results, QueryNumber(q, "count", DEFAULT_COUNT)))
                              |-> [result |-> results[i]]]]]

pagedResult(q, results) ==
    [http |-> STATUS.OK,
     body |-> [isOk |-> TRUE, status |-> STATUS.OK,
               links |-> NavLinks(pageLink(q, Len(results), 1),
                                  pageLink(q, Len(results), -1)),
               result |-> [i \in 1..Len(Slice(results, QueryNumber(q, "count", DEFAULT_COUNT)))
                              |-> [result |-> results[i]]]]]

\* the query that doFindSensorTypes passes on: one result more than asked
OneMore(q) ==
    Merge(q, [count |-> NumberToString(Plus(QueryNumber(q, "count", DEFAULT_COUNT), Num(10))),
              index |-> NumberToString(QueryNumber(q, "index", DEFAULT_INDEX))])

\* the answer of doFindSensorTypes to the result of the find
PagedResponse(q, result) ==
    IF ~result.isOk THEN mapResultErrors(result) ELSE pagedResult(q, result.val)

doFindSensorTypes(q) ==
    /\ Ready("dao")
    /\ last' = Called("doFindSensorTypes", q,
                      PagedResponse(q, FoundSensorTypes(OneMore(q),
                                           SensorTypeSearch_make(OneMore(q)))))
    /\ UNCHANGED <<variant, sensorTypes, sensors, sensorReadings, db>>

\* A client that pages through the sensor types: it sends a paged GET and
\* then the GET of each next link it is given, keeping the pages it has got.
Browsing(q, response, pages) ==
    [op |-> "browse", req |-> q, res |-> response,
     pages |-> pages \o [i \in 1..Len(response.body.result)
                            |-> response.body.result[i].result]]

\* the answer of the handler doFindSensorTypes to the query q
FindSensorTypesResponse(q) ==
    PagedResponse(q, FoundSensorTypes(OneMore(q), SensorTypeSearch_make(OneMore(q))))

HasNext(response) == response.http = STATUS.OK /\ "next" \in DOMAIN response.body.links

Browse(q) ==
    /\ Ready("dao")
    /\ last' = Browsing(q, FindSensorTypesResponse(q), <<>>)
    /\ UNCHANGED <<variant, sensorTypes, sensors, sensorReadings, db>>

\* the client has a page with a next link
CanFollow == variant = "dao" /\ last.op = "browse" /\ HasNext(last.res)

FollowNext ==
    /\ CanFollow
    /\ last' = Browsing(last.res.body.links.next,
                        FindSensorTypesResponse(last.res.body.links.next),
                        last.pages)
    /\ UNCHANGED <<variant, sensorTypes, sensors, sensorReadings, db>>

\* the client has the last page and stops
BrowseEnd ==
    /\ variant = "dao"
    /\ last.op = "browse"
    /\ ~HasNext(last.res)
    /\ last' = NoCall
    /\ UNCHANGED <<variant, sensorTypes, sensors, sensorReadings, db>>

\* the error mapping on its own, applied to what a handler has caught
MapResultErrors(err) ==
    /\ Ready("dao")
    /\ last' = Called("mapResultErrors", err, mapResultErrors(err))
    /\ UNCHANGED <<variant, sensorTypes, sensors, sensorReadings, db>>

(***************************************************************************)
(* prj3: two callers at once.  The methods of SensorsInfo are async: a call *)
(* runs up to its first await when it is made, and each await is one        *)
(* operation of the database, which the server carries out atomically and   *)
(* in any order with the operations of the other call.  While two calls     *)
(* run, last holds both with the place each has reached, and the database   *)
(* as it was when they were made.                                           *)
(***************************************************************************)
Callers == {1, 2}

\* a call waiting for the database operation pc, and a call that has returned
Pending(op, req, pc, val) ==
    [op |-> op, req |-> req, pc |-> pc, val |-> val, res |-> okResult(<<>>)]

Done(op, req, res) ==
    [op |-> op, req |-> req, pc |-> "done", val |-> <<>>, res |-> res]

Calls(calls, before) == [op |-> "calls", calls |-> calls, before |-> before]

\* an add up to its first await: the request is validated
BeginAdd(call, result, pc) ==
    IF ~result.isOk THEN Done(call.op, call.req, result)
    ELSE Pending(call.op, call.req, pc, result.val)

Begin(call) ==
    IF call.op = "clear" THEN Pending("clear", <<>>, "deleteSensorTypes", <<>>)
    ELSE IF call.op = "addSensorType"
    THEN BeginAdd(call, makeSensorType(call.req), "insertSensorType")
    ELSE IF call.op = "addSensor"
    THEN BeginAdd(call, makeSensor(call.req), "findSensorTypes")
    ELSE BeginAdd(call, makeSensorReading(call.req), "findSensors")

\* two calls are made, neither awaiting the other
Fork(call1, call2) ==
    /\ Ready("dao")
    /\ last' = Calls(<<Begin(call1), Begin(call2)>>, db)
    /\ UNCHANGED <<variant, sensorTypes, sensors, sensorReadings, db>>

\* the call of caller c waits for the database operation pc
Running(c, pc) == variant = "dao" /\ last.op = "calls" /\ last.calls[c].pc = pc

Advance(c, pc) == last' = [last EXCEPT !.calls[c].pc = pc]

Finish(c, res) == last' = [last EXCEPT !.calls[c] = Done(@.op, @.req, res)]

\* SensorsDao.clear: three deleteMany, one after the other
DeleteSensorTypes(c) ==
    /\ Running(c, "deleteSensorTypes")
    /\ db' = [db EXCEPT !.sensorTypes = <<>>]
    /\ Advance(c, "deleteSensors")
    /\ UNCHANGED <<variant, sensorTypes, sensors, sensorReadings>>

DeleteSensors(c) ==
    /\ Running(c, "deleteSensors")
    /\ db' = [db EXCEPT !.sensors = <<>>]
    /\ Advance(c, "deleteSensorReadings")
    /\ UNCHANGED <<variant, sensorTypes, sensors, sensorReadings>>

DeleteSensorReadings(c) ==
    /\ Running(c, "deleteSensorReadings")
    /\ db' = [db EXCEPT !.sensorReadings = <<>>]
    /\ Finish(c, okResult(<<>>))
    /\ UNCHANGED <<variant, sensorTypes, sensors, sensorReadings>>

\* insertOne of SensorsDao.addSensorType
InsertSensorType(c) ==
    /\ Running(c, "insertSensorType")
    /\ IF DuplicateId(db.sensorTypes, last.calls[c].val.id)
       THEN /\ Finish(c, errResult(<<Err("EXISTS", <<>>)>>))
            /\ UNCHANGED db
       ELSE /\ db' = [db EXCEPT !.sensorTypes = Append(@, WithId(last.calls[c].val))]
            /\ Finish(c, okResult(last.calls[c].val))
    /\ UNCHANGED <<variant, sensorTypes, sensors, sensorReadings>>

\* what addSensor does with the sensor types found
LookedUpSensorType(c, sensor, sensorTypesResult) ==
    IF ~sensorTypesResult.isOk THEN Finish(c, sensorTypesResult)
    ELSE IF Len(sensorTypesResult.val) # 1
    THEN Finish(c, errResult(<<Err("BAD_ID", <<"sensorTypeId">>)>>))
    ELSE IF ~isSubrange(sensor.expected, sensorTypesResult.val[1].limits)
    THEN Finish(c, errResult(<<Err("BAD_RANGE", <<"min">>)>>))
    ELSE Advance(c, "insertSensor")

\* dao.findSensorTypes of addSensor
FindSensorTypes(c) ==
    /\ Running(c, "findSensorTypes")
    /\ LookedUpSensorType(c, last.calls[c].val,
           DaoFindSensorTypes([id |-> last.calls[c].val.sensorTypeId]))
    /\ UNCHANGED <<variant, sensorTypes, sensors, sensorReadings, db>>

\* an insert made in one transaction with the lookup of the sensor type
InsertSensor_IfTypeStored(c) ==
    /\ Running(c, "insertSensor")
    /\ IF ~DuplicateId(db.sensorTypes, last.calls[c].val.sensorTypeId)
       THEN /\ Finish(c, errResult(<<Err("BAD_ID", <<"sensorTypeId">>)>>))
            /\ UNCHANGED db
       ELSE IF DuplicateId(db.sensors, last.calls[c].val.id)
       THEN /\ Finish(c, errResult(<<Err("EXISTS", <<>>)>>))
            /\ UNCHANGED db
       ELSE /\ db' = [db EXCEPT !.sensors = Append(@, WithId(last.calls[c].val))]
            /\ Finish(c, okResult(last.calls[c].val))
    /\ UNCHANGED <<variant, sensorTypes, sensors, sensorReadings>>

\* insertOne of SensorsDao.addSensor
InsertSensor(c) ==
    /\ Running(c, "insertSensor")
    /\ IF DuplicateId(db.sensors, last.calls[c].val.id)
       THEN /\ Finish(c, errResult(<<Err("EXISTS", <<>>)>>))
            /\ UNCHANGED db
       ELSE /\ db' = [db EXCEPT !.sensors = Append(@, WithId(last.calls[c].val))]
            /\ Finish(c, okResult(last.calls[c].val))
    /\ UNCHANGED <<variant, sensorTypes, sensors, sensorReadings>>

\* what addSensorReading does with the sensors found
LookedUpSensor(c, sensorsResult) ==
    IF ~sensorsResult.isOk THEN Finish(c, sensorsResult)
    ELSE IF Len(sensorsResult.val) # 1
    THEN Finish(c, errResult(<<Err("BAD_ID", <<"sensorId">>)>>))
    ELSE Advance(c, "insertSensorReading")

\* dao.findSensors of addSensorReading
FindSensors(c) ==
    /\ Running(c, "findSensors")
    /\ LookedUpSensor(c, DaoFindSensors([id |-> last.calls[c].val.sensorId]))
    /\ UNCHANGED <<variant, sensorTypes, sensors, sensorReadings, db>>

\* insertOne of SensorsDao.addSensorReading
InsertSensorReading(c) ==
    /\ Running(c, "insertSensorReading")
    /\ IF DuplicateReading(db.sensorReadings, last.calls[c].val)
       THEN /\ Finish(c, errResult(<<Err("EXISTS", <<>>)>>))
            /\ UNCHANGED db
       ELSE /\ db' = [db EXCEPT !.sensorReadings = Append(@, last.calls[c].val)]
            /\ Finish(c, okResult(last.calls[c].val))
    /\ UNCHANGED <<variant, sensorTypes, sensors, sensorReadings>>

\* both calls have returned and their results are taken
Join ==
    /\ variant = "dao"
    /\ last.op = "calls"
    /\ \A c \in Callers : last.calls[c].pc = "done"
    /\ last' = NoCall
    /\ UNCHANGED <<variant, sensorTypes, sensors, sensorReadings, db>>

(***************************************************************************)
(* prj2: the data access object, second revision of sensors-dao.ts.  Its    *)
(* callers hand it entities that are already validated.  A reading is       *)
(* inserted without an _id, so the driver gives it a fresh ObjectId; the    *)
(* ObjectIds one client makes grow with the order of the inserts, and the   *)
(* model takes the ordinal of the insert for them.                          *)
(***************************************************************************)
MaxDocs == 3

ObjectId(collection) == Len(collection) + 1

Prj2DaoClear ==
    /\ Ready("prj2")
    /\ db' = EmptyDb
    /\ last' = Called("clear", <<>>, okResult(<<>>))
    /\ UNCHANGED <<variant, sensorTypes, sensors, sensorReadings>>

Prj2DaoAddSensorReading(sensorReading) ==
    /\ Ready("prj2")
    /\ Len(db.sensorReadings) < MaxDocs
    /\ IF DuplicateReading(db.sensorReadings, sensorReading)
       THEN /\ last' = Called("addSensorReading", sensorReading,
                              errResult(<<Err("EXISTS", <<>>)>>))
            /\ UNCHANGED db
       ELSE /\ db' = [db EXCEPT !.sensorReadings =
                         Append(@, Merge(sensorReading, [_id |-> ObjectId(@)]))]
            /\ last' = Called("addSensorReading", sensorReading,
                              okResult(sensorReading))
    /\ UNCHANGED <<variant, sensorTypes, sensors, sensorReadings>>

\* the documents the query of getFindSensorReadingsQuery selects
getFindSensorReadingsQuery(search, doc) ==
    /\ ("sensorId" \in DOMAIN search /\ search.sensorId # "")
           => doc.sensorId = search.sensorId
    /\ "minTimestamp" \in DOMAIN search => LE(search.minTimestamp, doc.timestamp)
    /\ "maxTimestamp" \in DOMAIN search => LE(doc.timestamp, search.maxTimestamp)
    /\ "minValue" \in DOMAIN search => LE(search.minValue, doc.value)
    /\ "maxValue" \in DOMAIN search => LE(doc.value, search.maxValue)

\* sort({_id: 1})
RECURSIVE InsertBy_id(_, _)
InsertBy_id(x, sorted) ==
    IF sorted = <<>> THEN <<x>>
    ELSE IF Head(sorted)._id > x._id THEN <<x>> \o sorted
    ELSE <<Head(sorted)>> \o InsertBy_id(x, Tail(sorted))

RECURSIVE SortBy_id(_)
SortBy_id(seq) ==
    IF seq = <<>> THEN <<>>
    ELSE InsertBy_id(Head(seq), SortBy_id(Tail(seq)))

Prj2DaoFindSensorReadings(search) ==
    /\ Ready("prj2")
    /\ last' = Called("findSensorReadings", search,
                      okResult(Projected(SortBy_id(
                          SelectSeq(db.sensorReadings,
                              LAMBDA doc : getFindSensorReadingsQuery(search, doc))))))
    /\ UNCHANGED <<variant, sensorTypes, sensors, sensorReadings, db>>

(***************************************************************************)
(* Requests.  A request maps the field names it carries to strings; the    *)
(* sets below give each field the values it takes, ABSENT for a field the  *)
(* request does not carry.                                                 *)
(***************************************************************************)
ABSENT == "<absent>"
Opt(S) == S \cup {ABSENT}
Strip(r) == [k \in {f \in DOMAIN r : r[f] # ABSENT} |-> r[k]]

TypeIds == {"b", "ab"}
SensorIds == {"s2", "s10"}

\* Spec: sensor types and sensors of every kind, few readings
SensorTypeReqs ==
    {Strip(r) : r \in [id : TypeIds, manufacturer : {"m"}, modelNumber : {"n"},
                       quantity : {"q"}, unit : {"u"},
                       min : {"10"}, max : {"10", "100"}]}

SensorReqs ==
    {Strip(r) : r \in [id : SensorIds, sensorTypeId : TypeIds \cup {"constructor"},
                       period : {"1000"}, min : {"9", "10"}, max : {"100", "101"}]}

SensorReadingReqs ==
    {Strip(r) : r \in [sensorId : {"s2", "constructor"}, timestamp : {"1", "2"},
                       value : {"12.4"}]}

FindSensorTypesReqs == {Strip(r) : r \in [id : Opt(TypeIds)]}

FindSensorsReqs == {Strip(r) : r \in [id : Opt(SensorIds)]}

FindSensorReadingsReqs == {Strip(r) : r \in [sensorId : {"s2", "constructor"}]}

\* SpecR: one sensor type, its sensors, and readings of every kind; the
\* store grows to MaxReadings readings, which later adds replace
MaxReadings == 2

RSensorTypeReqs ==
    {Strip(r) : r \in [id : {"ab"}, manufacturer : {"m"}, modelNumber : {"n"},
                       quantity : {"q"}, unit : {"u"}, min : {"10"}, max : {"100"}]}

RSensorReqs ==
    {Strip(r) : r \in [id : SensorIds, sensorTypeId : {"ab"},
                       period : {"1000"}, min : {"10"}, max : {"100"}]}

RSensorReadingReqs ==
    {Strip(r) : r \in [sensorId : SensorIds \cup {"constructor"},
                       timestamp : {"1", "2"}, value : {"12.4", "13.4"}]}

RFindSensorReadingsReqs ==
    {Strip(r) : r \in [sensorId : SensorIds \cup {"constructor"},
                       minTimestamp : Opt({"2"}), maxTimestamp : Opt({"1"}),
                       minValue : Opt({"12.4", "13.4"}),
                       maxValue : Opt({"12.4"})]}

\* SpecV: every field may be absent, and the checked fields also take
\* values their check rejects
VSensorTypeReqs ==
    {Strip(r) : r \in [id : Opt({"ab"}), manufacturer : Opt({"m"}),
                       modelNumber : Opt({"n"}), quantity : Opt({"q"}),
                       unit : Opt({"u"}),
                       min : Opt({"10", "100", "10x"}),
                       max : Opt({"10.0", "100", "100x"})]}

VSensorReqs ==
    {Strip(r) : r \in [id : Opt({"s2"}), sensorTypeId : Opt({"ab"}),
                       period : Opt({"1000", "1x"}),
                       min : Opt({"10", "100", "10x"}),
                       max : Opt({"10.0", "100", "100x"})]}

VSensorReadingReqs ==
    {Strip(r) : r \in [sensorId : Opt({"s2"}), timestamp : Opt({"1", "1x", "1.5"}),
                       value : Opt({"12.4", "-10", "12.4x", ".5"})]}

VFindSensorReadingsReqs ==
    {Strip(r) : r \in [sensorId : Opt({"s2"}),
                       minTimestamp : Opt({"1", "2", "1x"}), maxTimestamp : Opt({"1", "1.5"}),
                       minValue : Opt({"13.4", "12.4x"}), maxValue : Opt({"12.4", ".5"})]}

(***************************************************************************)
(* Specifications.  Calls are made one at a time: the caller takes the     *)
(* result of a call (Return) before it makes the next one.                 *)
(***************************************************************************)
RECURSIVE SumLen(_, _)
SumLen(f, keys) ==
    IF keys = {} THEN 0
    ELSE LET k == CHOOSE x \in keys : TRUE IN Len(f[k]) + SumLen(f, keys \ {k})

StoredReadings ==
    IF variant = "mem" THEN SumLen(sensorReadings, DOMAIN sensorReadings)
    ELSE Len(db.sensorReadings)

\* the readings stored for the sensor the request names
ReadingsOf(sensorId) ==
    IF variant = "dao"
    THEN SelectSeq(db.sensorReadings, LAMBDA r : r.sensorId = sensorId)
    ELSE IF sensorId \in DOMAIN sensorReadings THEN sensorReadings[sensorId]
    ELSE <<>>

\* the store has room for the reading, or holds one of its sensor and time
RoomFor(req) ==
    \/ StoredReadings < MaxReadings
    \/ \E i \in 1..Len(ReadingsOf(req.sensorId)) :
           ReadingsOf(req.sensorId)[i].timestamp = Number(req.timestamp)

Return ==
    /\ last # NoCall
    /\ last.op # "calls"
    /\ last' = NoCall
    /\ UNCHANGED <<variant, sensorTypes, sensors, sensorReadings, db>>

Init ==
    /\ variant \in {"mem", "dao"}
    /\ sensorTypes = <<>>
    /\ sensors = <<>>
    /\ sensorReadings = <<>>
    /\ db = EmptyDb
    /\ last = NoCall

Next ==
    \/ clear
    \/ \E req \in SensorTypeReqs : addSensorType(req)
    \/ \E req \in SensorReqs : addSensor(req)
    \/ \E req \in SensorReadingReqs : addSensorReading(req)
    \/ \E req \in FindSensorTypesReqs : findSensorTypes(req)
    \/ \E req \in FindSensorsReqs : findSensors(req)
    \/ \E req \in FindSensorReadingsReqs : findSensorReadings(req)
    \/ Prj3Clear
    \/ \E req \in SensorTypeReqs : Prj3AddSensorType(req)
    \/ \E req \in SensorReqs : Prj3AddSensor(req)
    \/ \E req \in SensorReadingReqs : Prj3AddSensorReading(req)
    \/ \E req \in FindSensorTypesReqs : Prj3FindSensorTypes(req)
    \/ \E req \in FindSensorsReqs : Prj3FindSensors(req)
    \/ \E req \in FindSensorReadingsReqs : Prj3FindSensorReadings(req)
    \/ Return

Spec == Init /\ [][Next]_vars

\* the stores under readings of several sensors, times and values
NextR ==
    \/ clear
    \/ \E req \in RSensorTypeReqs : addSensorType(req)
    \/ \E req \in RSensorReqs : addSensor(req)
    \/ \E req \in RSensorReadingReqs : RoomFor(req) /\ addSensorReading(req)
    \/ \E req \in FindSensorsReqs : findSensors(req)
    \/ \E req \in RFindSensorReadingsReqs : findSensorReadings(req)
    \/ Prj3Clear
    \/ \E req \in RSensorTypeReqs : Prj3AddSensorType(req)
    \/ \E req \in RSensorReqs : Prj3AddSensor(req)
    \/ \E req \in RSensorReadingReqs : RoomFor(req) /\ Prj3AddSensorReading(req)
    \/ \E req \in FindSensorsReqs : Prj3FindSensors(req)
    \/ \E req \in RFindSensorReadingsReqs : Prj3FindSensorReadings(req)
    \/ Return

SpecR == Init /\ [][NextR]_vars

\* the in-memory SensorsInfo under requests of every shape
InitV ==
    /\ variant = "mem"
    /\ sensorTypes = <<>>
    /\ sensors = <<>>
    /\ sensorReadings = <<>>
    /\ db = EmptyDb
    /\ last = NoCall

NextV ==
    \/ clear
    \/ \E req \in VSensorTypeReqs : addSensorType(req)
    \/ \E req \in VSensorReqs : addSensor(req)
    \/ \E req \in VSensorReadingReqs : addSensorReading(req)
    \/ \E req \in VFindSensorReadingsReqs : findSensorReadings(req)
    \/ Return

SpecV == InitV /\ [][NextV]_vars

\* SpecF: sensor types of two manufacturers and sensors of two types, looked
\* up by every combination of search fields and by a field that is none
FSensorTypeReqs ==
    {Strip(r) : r \in [id : TypeIds, manufacturer : {"m", "n"}, modelNumber : {"n"},
                       quantity : {"q"}, unit : {"u"}, min : {"10"}, max : {"100"}]}

FSensorReqs ==
    {Strip(r) : r \in [id : SensorIds, sensorTypeId : TypeIds,
                       period : {"1000"}, min : {"10"}, max : {"100"}]}

FFindSensorTypesReqs ==
    {Strip(r) : r \in [id : Opt({"ab", "q"}), manufacturer : Opt({"m", "u"}),
                       xxx : Opt({"42"})]}

FFindSensorsReqs ==
    {Strip(r) : r \in [id : Opt({"s2", "q"}), sensorTypeId : Opt({"ab", "u"}),
                       xxx : Opt({"42"})]}

NextF ==
    \/ clear
    \/ \E req \in FSensorTypeReqs : addSensorType(req)
    \/ \E req \in FSensorReqs : addSensor(req)
    \/ \E req \in FFindSensorTypesReqs : findSensorTypes(req)
    \/ \E req \in FFindSensorsReqs : findSensors(req)
    \/ Prj3Clear
    \/ \E req \in FSensorTypeReqs : Prj3AddSensorType(req)
    \/ \E req \in FSensorReqs : Prj3AddSensor(req)
    \/ \E req \in FFindSensorTypesReqs : Prj3FindSensorTypes(req)
    \/ \E req \in FFindSensorsReqs : Prj3FindSensors(req)
    \/ Return

SpecF == Init /\ [][NextF]_vars

\* SpecQ: the prj3 revision with three sensor types and three readings of a
\* sensor, looked up page by page
QSensorTypeReqs ==
    {Strip(r) : r \in [id : {"ab", "b", "m"}, manufacturer : {"m"}, modelNumber : {"n"},
                       quantity : {"q"}, unit : {"u"}, min : {"10"}, max : {"100"}]}

QSensorReqs ==
    {Strip(r) : r \in [id : {"s2"}, sensorTypeId : {"ab"},
                       period : {"1000"}, min : {"10"}, max : {"100"}]}

QSensorReadingReqs ==
    {Strip(r) : r \in [sensorId : {"s2"}, timestamp : {"1", "2", "3"},
                       value : {"12.4"}]}

QFindSensorTypesReqs ==
    {Strip(r) : r \in [count : Opt({"1", "2"}), index : Opt({"0", "1", "3"})]}

QFindSensorReadingsReqs ==
    {Strip(r) : r \in [sensorId : {"s2"},
                       count : Opt({"1", "2"}), index : Opt({"0", "1", "3"})]}

InitQ ==
    /\ variant = "dao"
    /\ sensorTypes = <<>>
    /\ sensors = <<>>
    /\ sensorReadings = <<>>
    /\ db = EmptyDb
    /\ last = NoCall

NextQ ==
    \/ Prj3Clear
    \/ \E req \in QSensorTypeReqs : Prj3AddSensorType(req)
    \/ \E req \in QSensorReqs : Prj3AddSensor(req)
    \/ \E req \in QSensorReadingReqs : Prj3AddSensorReading(req)
    \/ \E req \in QFindSensorTypesReqs : Prj3FindSensorTypes(req)
    \/ \E req \in QFindSensorReadingsReqs : Prj3FindSensorReadings(req)
    \/ Return

SpecQ == InitQ /\ [][NextQ]_vars

\* SpecP: the prj3 revision with more sensor types than a page holds, looked
\* up without paging fields
PSensorTypeReqs ==
    {Strip(r) : r \in [id : {"ab", "b", "m", "n", "q", "u"}, manufacturer : {"m"},
                       modelNumber : {"n"}, quantity : {"q"}, unit : {"u"},
                       min : {"10"}, max : {"100"}]}

PFindSensorTypesReqs ==
    {Strip(r) : r \in [manufacturer : Opt({"m", "u"})]}

NextP ==
    \/ Prj3Clear
    \/ \E req \in PSensorTypeReqs : Prj3AddSensorType(req)
    \/ \E req \in PFindSensorTypesReqs : Prj3FindSensorTypes(req)
    \/ Return

SpecP == InitQ /\ [][NextP]_vars

\* SpecS: sensors of one type, whose period runs over zero, a positive
\* integer, and strings that are no digit strings
SSensorReqs ==
    {Strip(r) : r \in [id : SensorIds, sensorTypeId : {"ab"},
                       period : {"0", "1", "1.5", "-10", "1x"},
                       min : {"10"}, max : {"100"}]}

NextS ==
    \/ clear
    \/ \E req \in RSensorTypeReqs : addSensorType(req)
    \/ \E req \in SSensorReqs : addSensor(req)
    \/ \E req \in FindSensorsReqs : findSensors(req)
    \/ Prj3Clear
    \/ \E req \in RSensorTypeReqs : Prj3AddSensorType(req)
    \/ \E req \in SSensorReqs : Prj3AddSensor(req)
    \/ \E req \in FindSensorsReqs : Prj3FindSensors(req)
    \/ Return

SpecS == Init /\ [][NextS]_vars

\* SpecH: the error mapping over the lists of at most MaxErrors errors; an
\* error has one of the codes, or none
MaxErrors == 3

ErrorCodes ==
    {"EXISTS", "NOT_FOUND", "BAD_REQ", "AUTH", "DB", "INTERNAL",
     "REQUIRED", "BAD_VAL", "BAD_RANGE", "BAD_ID", "undefined"}

ErrorLists ==
    UNION {[1..n -> {Err(code, <<>>) : code \in ErrorCodes}] : n \in 0..MaxErrors}

Caught == {errResult(errors) : errors \in ErrorLists} \cup {Thrown}

NextH ==
    \/ \E err \in Caught : MapResultErrors(err)
    \/ Return

SpecH == InitQ /\ [][NextH]_vars

\* SpecW: the prj3 SensorsInfo behind the handlers that answer a GET for one
\* sensor type or one sensor
GetIds == TypeIds \cup SensorIds \cup {"constructor"}

NextW ==
    \/ Prj3Clear
    \/ \E req \in SensorTypeReqs : Prj3AddSensorType(req)
    \/ \E req \in SensorReqs : Prj3AddSensor(req)
    \/ \E req \in FindSensorTypesReqs : Prj3FindSensorTypes(req)
    \/ \E req \in FindSensorsReqs : Prj3FindSensors(req)
    \/ \E sensorTypeId \in GetIds : doGetSensorType(sensorTypeId)
    \/ \E sensorId \in GetIds : doGetSensor(sensorId)
    \/ Return

SpecW == InitQ /\ [][NextW]_vars

\* SpecG: paged GETs of the sensor types, over stores of up to four
GSensorTypeReqs ==
    {Strip(r) : r \in [id : {"ab", "b", "m", "n"}, manufacturer : {"m"},
                       modelNumber : {"n"}, quantity : {"q"}, unit : {"u"},
                       min : {"10"}, max : {"100"}]}

GQueries ==
    {Strip(r) : r \in [count : Opt({"1", "2", "1x"}), index : Opt({"0", "1", "2"})]}

NextG ==
    \/ Prj3Clear
    \/ \E req \in GSensorTypeReqs : Prj3AddSensorType(req)
    \/ \E q \in GQueries : doFindSensorTypes(q)
    \/ Return

SpecG == InitQ /\ [][NextG]_vars

\* SpecO: sensors that are invalid, name no stored type, or lie outside the
\* limits of their type, in any combination
OSensorReqs ==
    {Strip(r) : r \in [id : {"s2"}, sensorTypeId : Opt({"ab", "b", "constructor"}),
                       period : {"1000", "1x"}, min : {"9", "10", "101"},
                       max : {"100"}]}

NextO ==
    \/ clear
    \/ \E req \in RSensorTypeReqs : addSensorType(req)
    \/ \E req \in OSensorReqs : addSensor(req)
    \/ Prj3Clear
    \/ \E req \in RSensorTypeReqs : Prj3AddSensorType(req)
    \/ \E req \in OSensorReqs : Prj3AddSensor(req)
    \/ Return

SpecO == Init /\ [][NextO]_vars

\* SpecE: adds of the three kinds that fail in every way: a field missing,
\* a value that is no number, a reversed range, an unknown id, a range
\* outside the limits, a duplicate
ESensorTypeReqs ==
    {Strip(r) : r \in [id : {"ab"}, manufacturer : Opt({"m"}), modelNumber : {"n"},
                       quantity : {"q"}, unit : {"u"}, min : {"10", "10x"},
                       max : {"100", "9"}]}

ESensorReadingReqs ==
    {Strip(r) : r \in [sensorId : Opt({"s2", "s10"}), timestamp : {"1", "1x"},
                       value : {"12.4"}]}

NextE ==
    \/ clear
    \/ \E req \in ESensorTypeReqs : addSensorType(req)
    \/ \E req \in OSensorReqs : addSensor(req)
    \/ \E req \in ESensorReadingReqs : addSensorReading(req)
    \/ Prj3Clear
    \/ \E req \in ESensorTypeReqs : Prj3AddSensorType(req)
    \/ \E req \in OSensorReqs : Prj3AddSensor(req)
    \/ \E req \in ESensorReadingReqs : Prj3AddSensorReading(req)
    \/ Return

SpecE == Init /\ [][NextE]_vars

\* SpecC: the prj3 revision with calls made one at a time and calls made two
\* at a time
CSensorTypeReqs ==
    {Strip(r) : r \in [id : {"ab"}, manufacturer : {"m"}, modelNumber : {"n"},
                       quantity : {"q"}, unit : {"u"}, min : {"10"},
                       max : {"100", "101"}]}

CSensorReqs ==
    {Strip(r) : r \in [id : {"s2"}, sensorTypeId : {"ab"}, period : {"1", "1000"},
                       min : {"10"}, max : {"100"}]}

CSensorReadingReqs ==
    {Strip(r) : r \in [sensorId : {"s2"}, timestamp : {"1"}, value : {"12.4", "13.4"}]}

CCalls ==
    {[op |-> "clear", req |-> <<>>]}
    \cup {[op |-> "addSensorType", req |-> req] : req \in CSensorTypeReqs}
    \cup {[op |-> "addSensor", req |-> req] : req \in CSensorReqs}
    \cup {[op |-> "addSensorReading", req |-> req] : req \in CSensorReadingReqs}

NextC ==
    \/ Prj3Clear
    \/ \E req \in CSensorTypeReqs : Prj3AddSensorType(req)
    \/ \E req \in CSensorReqs : Prj3AddSensor(req)
    \/ \E req \in CSensorReadingReqs : Prj3AddSensorReading(req)
    \/ Return
    \/ \E call1, call2 \in CCalls : Fork(call1, call2)
    \/ \E c \in Callers : DeleteSensorTypes(c)
    \/ \E c \in Callers : DeleteSensors(c)
    \/ \E c \in Callers : DeleteSensorReadings(c)
    \/ \E c \in Callers : InsertSensorType(c)
    \/ \E c \in Callers : FindSensorTypes(c)
    \/ \E c \in Callers : InsertSensor(c)
    \/ \E c \in Callers : FindSensors(c)
    \/ \E c \in Callers : InsertSensorReading(c)
    \/ Join

SpecC == InitQ /\ [][NextC]_vars

\* SpecD: the data access object of prj2, called directly
DReadings ==
    [sensorId : {"s1", "s2"}, timestamp : {Number("1"), Number("2"), Number("3")},
     value : {Number("12.4")}]

DSearchOf(r) == [k \in DOMAIN r |-> IF k = "sensorId" THEN r[k] ELSE Number(r[k])]

DSearches ==
    {DSearchOf(Strip(r)) : r \in [sensorId : Opt({"s1"}),
                                  minTimestamp : Opt({"2"}),
                                  maxTimestamp : Opt({"2"})]}

InitD ==
    /\ variant = "prj2"
    /\ sensorTypes = <<>>
    /\ sensors = <<>>
    /\ sensorReadings = <<>>
    /\ db = EmptyDb
    /\ last = NoCall

NextD ==
    \/ Prj2DaoClear
    \/ \E sensorReading \in DReadings : Prj2DaoAddSensorReading(sensorReading)
    \/ \E search \in DSearches : Prj2DaoFindSensorReadings(search)
    \/ Return

SpecD == InitD /\ [][NextD]_vars

\* SpecB: clients that page through stores of up to three sensor types to the
\* last page.  A client that follows next links goes on doing so: FollowNext
\* is weakly fair.  FollowNext is enabled exactly where CanFollow holds, and
\* it always changes last, so its weak fairness is written with CanFollow in
\* the place of ENABLED <<FollowNext>>_vars.
BSensorTypeReqs ==
    {Strip(r) : r \in [id : {"ab", "b", "m"}, manufacturer : {"m", "n"},
                       modelNumber : {"n"}, quantity : {"q"}, unit : {"u"},
                       min : {"10"}, max : {"100"}]}

BQueries ==
    {Strip(r) : r \in [count : Opt({"1", "2"}), index : Opt({"0"}),
                       manufacturer : Opt({"m"})]}

ReturnB == last.op # "browse" /\ Return

NextB ==
    \/ Prj3Clear
    \/ \E req \in BSensorTypeReqs : Prj3AddSensorType(req)
    \/ ReturnB
    \/ \E q \in BQueries : Browse(q)
    \/ FollowNext
    \/ BrowseEnd

FollowFair == []<>(~CanFollow) \/ []<><<FollowNext>>_vars

SpecB == InitQ /\ [][NextB]_vars /\ FollowFair

\* SpecN: finds of the sensor types in the prj3 revision whose paging values
\* are negative, zero, fractional or no number
NFindSensorTypesReqs ==
    {Strip(r) : r \in [count : Opt({"0", "1", "1.5", "1x"}),
                       index : Opt({"-1", "0", "1"})]}

NextN ==
    \/ Prj3Clear
    \/ \E req \in QSensorTypeReqs : Prj3AddSensorType(req)
    \/ \E req \in NFindSensorTypesReqs : Prj3FindSensorTypes(req)
    \/ Return

SpecN == InitQ /\ [][NextN]_vars

(***************************************************************************)
(* Properties.  The values below are written out by hand, independently of *)
(* the operators on characters above: the strings that match the pattern   *)
(* of NUMBER_CHK, those that match the pattern of INTEGER_CHK, and the     *)
(* number each stands for, in tenths.                                      *)
(***************************************************************************)
NumericStrings ==
    {"9", "10", "10.0", "10.", "+10", "-10", "100", "101", "0", "1", "2", "3",
     "4", "5", "6", "1.5", "1000", "12.4", "13.4", "12", "13", "-1"}

IntegerStrings ==
    {"9", "10", "100", "101", "0", "1", "2", "3", "4", "5", "6", "1000", "12",
     "13"}

Tenths(s) ==
    CASE s = "9" -> 90 [] s = "10" -> 100 [] s = "10.0" -> 100 [] s = "10." -> 100
      [] s = "+10" -> 100 [] s = "-10" -> 0 - 100 [] s = "100" -> 1000
      [] s = "101" -> 1010 [] s = "0" -> 0 [] s = "1" -> 10 [] s = "2" -> 20
      [] s = "3" -> 30 [] s = "4" -> 40 [] s = "1.5" -> 15 [] s = "1000" -> 10000
      [] s = "12.4" -> 124 [] s = "13.4" -> 134 [] s = "12" -> 120
      [] s = "13" -> 130 [] s = "5" -> 50 [] s = "6" -> 60 [] s = "-1" -> 0 - 10

SensorTypeFields ==
    {"id", "manufacturer", "modelNumber", "quantity", "unit", "min", "max"}
SensorFields == {"id", "sensorTypeId", "period", "min", "max"}
SensorReadingFields == {"sensorId", "timestamp", "value"}

\* the request carries the field and its value is of the kind
IsNumeric(req, id) == id \in DOMAIN req /\ req[id] \in NumericStrings
IsInteger(req, id) == id \in DOMAIN req /\ req[id] \in IntegerStrings
\* the field is absent, or of the kind
NumericIfPresent(req, id) == id \in DOMAIN req => req[id] \in NumericStrings
IntegerIfPresent(req, id) == id \in DOMAIN req => req[id] \in IntegerStrings
\* both fields are present, numeric, and the first is above the second
Reversed(req, minId, maxId) ==
    /\ IsNumeric(req, minId) /\ IsNumeric(req, maxId)
    /\ Tenths(req[minId]) > Tenths(req[maxId])

EmptyStore == sensorTypes = <<>> /\ sensors = <<>> /\ sensorReadings = <<>>

RequiredOf(op) ==
    CASE op = "addSensorType" -> SensorTypeFields
      [] op = "addSensor" -> SensorFields
      [] op = "addSensorReading" -> SensorReadingFields
      [] op = "findSensorReadings" -> {"sensorId"}
      [] OTHER -> {}

\* every field the request carries is valid, and no pair of bounds is reversed
PresentFieldsValid(op, req) ==
    CASE op \in {"addSensorType", "addSensor"} ->
            /\ NumericIfPresent(req, "min") /\ NumericIfPresent(req, "max")
            /\ IntegerIfPresent(req, "period")
            /\ ~Reversed(req, "min", "max")
      [] op = "addSensorReading" ->
            IntegerIfPresent(req, "timestamp") /\ NumericIfPresent(req, "value")
      [] op = "findSensorReadings" ->
            /\ IntegerIfPresent(req, "minTimestamp")
            /\ IntegerIfPresent(req, "maxTimestamp")
            /\ NumericIfPresent(req, "minValue")
            /\ NumericIfPresent(req, "maxValue")
            /\ ~Reversed(req, "minTimestamp", "maxTimestamp")
            /\ ~Reversed(req, "minValue", "maxValue")
      [] OTHER -> FALSE

\* C2: addSensorType, addSensor, addSensorReading and findSensorReadings on a
\* request that is valid but for one required field it omits fail with one
\* error, of code REQUIRED, whichever field that is.
C2_OneRequiredError ==
    (/\ Cardinality(RequiredOf(last.op) \ DOMAIN last.req) = 1
     /\ PresentFieldsValid(last.op, last.req))
    => (~last.res.isOk /\ Codes(last.res) = <<"REQUIRED">>)

\* C2 witness: addSensor without period, every other field present and valid,
\* failed with the one error REQUIRED.
C2_Witness ==
    /\ last.op = "addSensor"
    /\ DOMAIN last.req = SensorFields \ {"period"}
    /\ PresentFieldsValid(last.op, last.req)
    /\ Codes(last.res) = <<"REQUIRED">>

\* C3: addSensorType and addSensor with every required field present and
\* exactly one of min and max not numeric fail with one error, BAD_VAL, and
\* no BAD_RANGE; so does addSensorReading with exactly one of timestamp and
\* value not numeric.
C3_OneBadValError ==
    /\ (/\ last.op \in {"addSensorType", "addSensor"}
        /\ DOMAIN last.req = RequiredOf(last.op)
        /\ IntegerIfPresent(last.req, "period")
        /\ IsNumeric(last.req, "min") # IsNumeric(last.req, "max"))
       => (~last.res.isOk /\ Codes(last.res) = <<"BAD_VAL">>)
    /\ (/\ last.op = "addSensorReading"
        /\ DOMAIN last.req = SensorReadingFields
        /\ \/ ~IsNumeric(last.req, "timestamp") /\ IsNumeric(last.req, "value")
           \/ IsInteger(last.req, "timestamp") /\ ~IsNumeric(last.req, "value"))
       => (~last.res.isOk /\ Codes(last.res) = <<"BAD_VAL">>)

\* C3 witness: addSensorType with min "100" and max "100x" failed with the one
\* error BAD_VAL.
C3_Witness ==
    /\ last.op = "addSensorType"
    /\ DOMAIN last.req = SensorTypeFields
    /\ last.req.min = "100" /\ last.req.max = "100x"
    /\ Codes(last.res) = <<"BAD_VAL">>

\* C4: addSensorType and addSensor with every required field present and
\* numeric and Number(min) > Number(max) fail with one error, BAD_RANGE; so
\* does findSensorReadings with a sensorId, valid bounds and exactly one of
\* the pairs (minTimestamp, maxTimestamp), (minValue, maxValue) reversed.
C4_OneBadRangeError ==
    /\ (/\ last.op \in {"addSensorType", "addSensor"}
        /\ DOMAIN last.req = RequiredOf(last.op)
        /\ IntegerIfPresent(last.req, "period")
        /\ Reversed(last.req, "min", "max"))
       => (~last.res.isOk /\ Codes(last.res) = <<"BAD_RANGE">>)
    /\ (/\ last.op = "findSensorReadings"
        /\ "sensorId" \in DOMAIN last.req
        /\ IntegerIfPresent(last.req, "minTimestamp")
        /\ IntegerIfPresent(last.req, "maxTimestamp")
        /\ NumericIfPresent(last.req, "minValue")
        /\ NumericIfPresent(last.req, "maxValue")
        /\ Reversed(last.req, "minTimestamp", "maxTimestamp")
               # Reversed(last.req, "minValue", "maxValue"))
       => (~last.res.isOk /\ Codes(last.res) = <<"BAD_RANGE">>)

\* C4 witness: findSensorReadings for a sensor with minValue "13.4" above
\* maxValue "12.4" and the timestamps in order failed with the one error
\* BAD_RANGE.
C4_Witness ==
    /\ last.op = "findSensorReadings"
    /\ DOMAIN last.req = {"sensorId", "minTimestamp", "maxTimestamp",
                          "minValue", "maxValue"}
    /\ last.req.minTimestamp = "1" /\ last.req.maxTimestamp = "1"
    /\ last.req.minValue = "13.4" /\ last.req.maxValue = "12.4"
    /\ Codes(last.res) = <<"BAD_RANGE">>

\* the stored sensor types and sensors of the revision that runs
StoredTypes == IF variant = "mem" THEN sensorTypes ELSE db.sensorTypes
StoredSensors == IF variant = "mem" THEN sensors ELSE db.sensors
IdsOf(entities) == {entities[i].id : i \in 1..Len(entities)}

ValidSensorTypeReq(req) ==
    /\ DOMAIN req = SensorTypeFields
    /\ IsNumeric(req, "min") /\ IsNumeric(req, "max")
    /\ ~Reversed(req, "min", "max")

ValidSensorReq(req) ==
    /\ DOMAIN req = SensorFields
    /\ IsInteger(req, "period")
    /\ IsNumeric(req, "min") /\ IsNumeric(req, "max")
    /\ ~Reversed(req, "min", "max")

ValidSensorReadingReq(req) ==
    /\ DOMAIN req = SensorReadingFields
    /\ IsInteger(req, "timestamp") /\ IsNumeric(req, "value")

\* C5: in every store, addSensor on a valid request whose sensorTypeId is the
\* id of no stored sensor type, and addSensorReading on a valid request whose
\* sensorId is the id of no stored sensor, fail with one error, BAD_ID.
C5_UnknownKeyIsBadId ==
    /\ (/\ last.op = "addSensor"
        /\ ValidSensorReq(last.req)
        /\ last.req.sensorTypeId \notin IdsOf(StoredTypes))
       => (~last.res.isOk /\ Codes(last.res) = <<"BAD_ID">>)
    /\ (/\ last.op = "addSensorReading"
        /\ ValidSensorReadingReq(last.req)
        /\ last.req.sensorId \notin IdsOf(StoredSensors))
       => (~last.res.isOk /\ Codes(last.res) = <<"BAD_ID">>)

\* the stored sensor type the request names is wide enough for its bounds
WithinLimits(req, types) ==
    \E i \in 1..Len(types) :
        /\ types[i].id = req.sensorTypeId
        /\ types[i].limits.min.v <= Tenths(req.min)
        /\ Tenths(req.max) <= types[i].limits.max.v

\* C6: the in-memory addSensor on a valid request that names a stored type T
\* succeeds if T.limits.min <= min and max <= T.limits.max, bounds equal to
\* the limits included, and otherwise fails with one error, BAD_RANGE.
C6_SubrangeDecides ==
    (/\ variant = "mem"
     /\ last.op = "addSensor"
     /\ ValidSensorReq(last.req)
     /\ last.req.sensorTypeId \in IdsOf(sensorTypes))
    => IF WithinLimits(last.req, sensorTypes)
       THEN last.res.isOk
       ELSE ~last.res.isOk /\ Codes(last.res) = <<"BAD_RANGE">>

\* C6 witness: a sensor with min "9", one below its type's limit 10, and max
\* at the limit 100 was refused with the one error BAD_RANGE.
C6_Witness ==
    /\ variant = "mem"
    /\ last.op = "addSensor"
    /\ last.req.min = "9" /\ last.req.max = "100"
    /\ \E i \in 1..Len(sensorTypes) :
           /\ sensorTypes[i].id = last.req.sensorTypeId
           /\ sensorTypes[i].limits.min.v = 100
           /\ sensorTypes[i].limits.max.v = 1000
    /\ Codes(last.res) = <<"BAD_RANGE">>

\* the database holds a reading of the request's sensor and time
ReadingStored(req, readings) ==
    \E i \in 1..Len(readings) :
        /\ readings[i].sensorId = req.sensorId
        /\ readings[i].timestamp.v = Tenths(req.timestamp)

At(readings, tenths) ==
    {i \in 1..Len(readings) : readings[i].timestamp.v = tenths}

\* C8: the in-memory addSensorReading on a valid request whose sensorId and
\* timestamp are those of a stored reading succeeds; the sensor then has as
\* many readings as before, one of them at that timestamp, with the new
\* value; and findSensorReadings for a sensor alone returns as many readings
\* as are stored for it, each of them a stored one.
C8_ReadingIsReplaced ==
    [][/\ (/\ variant = "mem"
           /\ last'.op = "addSensorReading"
           /\ ValidSensorReadingReq(last'.req)
           /\ last'.req.sensorId \in DOMAIN sensorReadings
           /\ At(sensorReadings[last'.req.sensorId],
                 Tenths(last'.req.timestamp)) # {})
          => (/\ last'.res.isOk
              /\ Len(sensorReadings'[last'.req.sensorId])
                     = Len(sensorReadings[last'.req.sensorId])
              /\ Cardinality(At(sensorReadings'[last'.req.sensorId],
                                Tenths(last'.req.timestamp))) = 1
              /\ \A i \in At(sensorReadings'[last'.req.sensorId],
                             Tenths(last'.req.timestamp)) :
                     sensorReadings'[last'.req.sensorId][i].value.v
                         = Tenths(last'.req.value))
       /\ (/\ variant = "mem"
           /\ last'.op = "findSensorReadings"
           /\ DOMAIN last'.req = {"sensorId"}
           /\ last'.req.sensorId \in DOMAIN sensorReadings')
          => (/\ last'.res.isOk
              /\ Len(last'.res.val) = Len(sensorReadings'[last'.req.sensorId])
              /\ \A i \in 1..Len(last'.res.val) :
                     \E j \in 1..Len(sensorReadings'[last'.req.sensorId]) :
                         last'.res.val[i] = sensorReadings'[last'.req.sensorId][j])
      ]_vars

\* C8 witness: the reading just added is the first of the two its sensor has,
\* at the place of the reading it replaced.
C8_Witness ==
    /\ variant = "mem"
    /\ last.op = "addSensorReading"
    /\ last.res.isOk
    /\ last.req.value = "13.4"
    /\ Len(sensorReadings[last.req.sensorId]) = 2
    /\ sensorReadings[last.req.sensorId][1] = last.res.val[1]

\* the entities of the sequence that have the id
WithIdOf(entities, id) == SelectSeq(entities, LAMBDA e : e.id = id)

\* C9: the in-memory addSensorType on a valid request, and addSensor on a
\* valid request that passes its cross-entity checks, with the id of a stored
\* entity succeed; the store then has as many entities of the kind as before
\* and one of that id, the one returned, built from the request; and a find
\* by id alone returns the stored entities of that id.
C9_EntityIsReplaced ==
    [][/\ (/\ variant = "mem"
           /\ last'.op = "addSensorType"
           /\ ValidSensorTypeReq(last'.req)
           /\ last'.req.id \in IdsOf(sensorTypes))
          => (/\ last'.res.isOk
              /\ Len(sensorTypes') = Len(sensorTypes)
              /\ WithIdOf(sensorTypes', last'.req.id) = last'.res.val
              /\ last'.res.val =
                   << [id |-> last'.req.id,
                       manufacturer |-> last'.req.manufacturer,
                       modelNumber |-> last'.req.modelNumber,
                       quantity |-> last'.req.quantity,
                       unit |-> last'.req.unit,
                       limits |-> [min |-> [k |-> "num", v |-> Tenths(last'.req.min)],
                                   max |-> [k |-> "num", v |-> Tenths(last'.req.max)]]] >>)
       /\ (/\ variant = "mem"
           /\ last'.op = "addSensor"
           /\ ValidSensorReq(last'.req)
           /\ WithinLimits(last'.req, sensorTypes)
           /\ last'.req.id \in IdsOf(sensors))
          => (/\ last'.res.isOk
              /\ Len(sensors') = Len(sensors)
              /\ WithIdOf(sensors', last'.req.id) = last'.res.val
              /\ last'.res.val =
                   << [id |-> last'.req.id,
                       sensorTypeId |-> last'.req.sensorTypeId,
                       period |-> [k |-> "num", v |-> Tenths(last'.req.period)],
                       expected |-> [min |-> [k |-> "num", v |-> Tenths(last'.req.min)],
                                     max |-> [k |-> "num", v |-> Tenths(last'.req.max)]]] >>)
       /\ (/\ variant = "mem"
           /\ last'.op = "findSensorTypes"
           /\ DOMAIN last'.req = {"id"})
          => (last'.res.isOk
                 /\ last'.res.val = WithIdOf(sensorTypes', last'.req.id))
       /\ (/\ variant = "mem"
           /\ last'.op = "findSensors"
           /\ DOMAIN last'.req = {"id"})
          => (last'.res.isOk
                 /\ last'.res.val = WithIdOf(sensors', last'.req.id))
      ]_vars

\* C9 witness: the sensor type just added, with max "100", is the first of the
\* two stored, at the place of the one it replaced.
C9_Witness ==
    /\ variant = "mem"
    /\ last.op = "addSensorType"
    /\ last.res.isOk
    /\ last.req.max = "100"
    /\ Len(sensorTypes) = 2
    /\ sensorTypes[1] = last.res.val[1]

\* the place of an id in the ascending order of strings, compared code unit
\* by code unit
IdRank(id) ==
    CASE id = "ab" -> 1 [] id = "b" -> 2 [] id = "m" -> 3 [] id = "n" -> 4
      [] id = "q" -> 5 [] id = "s10" -> 6 [] id = "s2" -> 7 [] id = "u" -> 8

Plain(entities) ==
    {[k \in DOMAIN entities[i] \ {"_id"} |-> entities[i][k]] : i \in 1..Len(entities)}

\* the entities that have the request's value in each of the fields
Matching(entities, req, fields) ==
    {e \in Plain(entities) : \A f \in DOMAIN req \cap fields : e[f] = req[f]}

ElementsOf(seq) == {seq[i] : i \in 1..Len(seq)}

AtLeast(req, minId, n) == minId \in DOMAIN req => Tenths(req[minId]) <= n.v
AtMost(req, maxId, n) == maxId \in DOMAIN req => n.v <= Tenths(req[maxId])

\* the stored readings the request asks for
Asked(req) ==
    {r \in ElementsOf(ReadingsOf(req.sensorId)) :
        /\ AtLeast(req, "minTimestamp", r.timestamp)
        /\ AtMost(req, "maxTimestamp", r.timestamp)
        /\ AtLeast(req, "minValue", r.value)
        /\ AtMost(req, "maxValue", r.value)}

\* C12: findSensorReadings on a valid request for a stored sensor returns the
\* stored readings of the sensor whose timestamp and value lie within the
\* bounds the request carries, the bounds included, each reading once, for
\* every bound the validator accepts, 12.4 among them.
C12_RangeFilter ==
    (/\ last.op = "findSensorReadings"
     /\ PresentFieldsValid(last.op, last.req)
     /\ "sensorId" \in DOMAIN last.req
     /\ last.req.sensorId \in IdsOf(StoredSensors))
    => (/\ last.res.isOk
        /\ ElementsOf(last.res.val) = Asked(last.req)
        /\ Len(last.res.val) = Cardinality(Asked(last.req)))

\* C12 witness: the in-memory findSensorReadings with minValue and maxValue
\* "12.4" returned nothing for a sensor that has a reading of value 12.4.
C12_Witness ==
    /\ variant = "mem"
    /\ last.op = "findSensorReadings"
    /\ DOMAIN last.req = {"sensorId", "minValue", "maxValue"}
    /\ last.req.minValue = "12.4" /\ last.req.maxValue = "12.4"
    /\ \E r \in ElementsOf(ReadingsOf(last.req.sensorId)) : r.value.v = 124
    /\ last.res.isOk
    /\ last.res.val = <<>>

\* the place of the sensor type among the set in ascending order of id, and
\* of the reading among the set in ascending order of timestamp
PlaceById(e, set) == 1 + Cardinality({x \in set : IdRank(x.id) < IdRank(e.id)})
PlaceByTimestamp(r, set) ==
    1 + Cardinality({x \in set : x.timestamp.v < r.timestamp.v})

\* the number the request gives for the paging field
Paged(req, id) == Tenths(req[id]) \div 10

\* the request carries an index that is an integer >= 0 and a count that is
\* an integer >= 1
CarriesPage(req) ==
    /\ IsInteger(req, "index") /\ IsInteger(req, "count")
    /\ Paged(req, "count") >= 1

\* C13: in the prj3 revision a find whose request carries an integer index
\* >= 0 and an integer count >= 1 returns, in order, the matches at the places
\* index .. index + count - 1 (counted from 0) of the sorted matches: fewer
\* when the matches end earlier, none when index is past their end.
C13_PageWindow ==
    /\ (last.op = "findSensorTypes" /\ CarriesPage(last.req))
       => (/\ last.res.isOk
           /\ Len(last.res.val) = Cardinality(ElementsOf(last.res.val))
           /\ ElementsOf(last.res.val) =
                {e \in Plain(db.sensorTypes) :
                    /\ PlaceById(e, Plain(db.sensorTypes)) > Paged(last.req, "index")
                    /\ PlaceById(e, Plain(db.sensorTypes))
                           <= Paged(last.req, "index") + Paged(last.req, "count")}
           /\ \A i, j \in 1..Len(last.res.val) :
                  i < j => IdRank(last.res.val[i].id) < IdRank(last.res.val[j].id))
    /\ (last.op = "findSensorReadings" /\ CarriesPage(last.req))
       => (/\ last.res.isOk
           /\ Len(last.res.val) = Cardinality(ElementsOf(last.res.val))
           /\ ElementsOf(last.res.val) =
                {r \in Asked(last.req) :
                    /\ PlaceByTimestamp(r, Asked(last.req)) > Paged(last.req, "index")
                    /\ PlaceByTimestamp(r, Asked(last.req))
                           <= Paged(last.req, "index") + Paged(last.req, "count")}
           /\ \A i, j \in 1..Len(last.res.val) :
                  i < j => last.res.val[i].timestamp.v < last.res.val[j].timestamp.v)

\* C13 witness: of three stored sensor types, findSensorTypes with index "1"
\* and count "2" returned the second and the third.
C13_Witness ==
    /\ last.op = "findSensorTypes"
    /\ DOMAIN last.req = {"count", "index"}
    /\ last.req.index = "1" /\ last.req.count = "2"
    /\ Len(db.sensorTypes) = 3
    /\ last.res.isOk
    /\ Len(last.res.val) = 2
    /\ last.res.val[1].id = "b" /\ last.res.val[2].id = "m"

\* the request carries no paging field
NoPage(req) == "count" \notin DOMAIN req /\ "index" \notin DOMAIN req

TypeSearchFields == {"id", "manufacturer", "modelNumber", "quantity", "unit"}

Cleared == IF variant = "mem" THEN EmptyStore ELSE db = EmptyDb

\* C15: clear succeeds in every state and leaves the three collections empty,
\* so that clearing twice gives the same result and state; on the cleared
\* store findSensorTypes({}) and findSensors({}) return [], findSensorReadings
\* returns [] for any sensorId, and addSensor on a valid request that names a
\* sensor type which can have been stored fails with BAD_ID.
C15_ClearEmpties ==
    [][/\ (last'.op = "clear") => (last'.res = okResult(<<>>) /\ Cleared')
       /\ (Cleared /\ last'.op \in {"findSensorTypes", "findSensors"}
                   /\ last'.req = <<>>)
          => (last'.res = okResult(<<>>))
       /\ (Cleared /\ last'.op = "findSensorReadings"
                   /\ DOMAIN last'.req = {"sensorId"})
          => (last'.res = okResult(<<>>))
       /\ (Cleared /\ last'.op = "addSensor" /\ ValidSensorReq(last'.req)
                   /\ last'.req.sensorTypeId \in TypeIds)
          => (~last'.res.isOk /\ Codes(last'.res) = <<"BAD_ID">>)
      ]_vars

\* C15 witness: clear has returned and the store is empty
C15_Witness ==
    last.op = "clear" /\ Cleared

\* the readings of the sensor stored under key k in the in-memory revision
KeyedReadings(k) == {sensorReadings[k][i] : i \in 1..Len(sensorReadings[k])}

\* every stored reading, in either revision
AllReadings ==
    IF variant = "mem" THEN UNION {KeyedReadings(k) : k \in DOMAIN sensorReadings}
    ELSE ElementsOf(db.sensorReadings)

OnePerTime(readings) ==
    \A i, j \in 1..Len(readings) :
        ~(/\ i < j
          /\ readings[i].sensorId = readings[j].sensorId
          /\ readings[i].timestamp = readings[j].timestamp)

\* C17: in every state, of both revisions, at most one reading is stored for
\* each pair of sensorId and timestamp.
C17_OneReadingPerTime ==
    IF variant = "mem"
    THEN \A k \in DOMAIN sensorReadings : OnePerTime(sensorReadings[k])
    ELSE OnePerTime(db.sensorReadings)

\* C17 witness: the prj3 revision holds two readings and has refused a third
\* for a sensor and time it holds.
C17_Witness ==
    /\ variant = "dao"
    /\ last.op = "addSensorReading"
    /\ Codes(last.res) = <<"EXISTS">>
    /\ Len(db.sensorReadings) = 2

\* the stored sensor of the id
StoredSensor(id) ==
    StoredSensors[CHOOSE i \in 1..Len(StoredSensors) : StoredSensors[i].id = id]

\* C18, as the code has it: every stored sensor has a period that is a
\* non-negative integer; addSensor refuses with BAD_VAL a period that is not
\* a string of digits, and when it succeeds, which it does for period '0', it
\* stores the number the digits denote.
C18_PeriodIsNatural ==
    /\ \A i \in 1..Len(StoredSensors) :
           /\ StoredSensors[i].period.k = "num"
           /\ StoredSensors[i].period.v % 10 = 0
           /\ StoredSensors[i].period.v >= 0
    /\ (last.op = "addSensor" /\ DOMAIN last.req = SensorFields)
       => IF last.req.period \in IntegerStrings
          THEN last.res.isOk
               => (/\ last.req.id \in IdsOf(StoredSensors)
                   /\ StoredSensor(last.req.id).period
                        = [k |-> "num", v |-> Tenths(last.req.period)])
          ELSE ~last.res.isOk /\ Codes(last.res) = <<"BAD_VAL">>

\* C18 witness: addSensor with period '0' has succeeded and the sensor is
\* stored with period 0.
C18_Witness ==
    /\ last.op = "addSensor"
    /\ last.req.period = "0"
    /\ last.res.isOk
    /\ \E i \in 1..Len(StoredSensors) :
           StoredSensors[i].id = last.req.id /\ StoredSensors[i].period.v = 0

\* C18 as stated: every stored sensor has a period that is an integer above
\* 0, and addSensor refuses period '0'.
C18_PeriodIsPositive ==
    /\ \A i \in 1..Len(StoredSensors) :
           /\ StoredSensors[i].period.k = "num"
           /\ StoredSensors[i].period.v % 10 = 0
           /\ StoredSensors[i].period.v > 0
    /\ (last.op = "addSensor" /\ DOMAIN last.req = SensorFields
                              /\ last.req.period = "0")
       => ~last.res.isOk

\* the status the claim gives a code that is in the map
MappedStatus(code) ==
    CASE code = "EXISTS" -> 409 [] code = "NOT_FOUND" -> 404
      [] code = "BAD_REQ" -> 400 [] code = "AUTH" -> 401

\* the first of the codes that is in the map, when none is DB or INTERNAL
FirstMapped(codes) ==
    codes[CHOOSE i \in 1..Len(codes) :
             /\ codes[i] \in {"EXISTS", "NOT_FOUND", "BAD_REQ", "AUTH"}
             /\ \A j \in 1..(i - 1) :
                    codes[j] \notin {"EXISTS", "NOT_FOUND", "BAD_REQ", "AUTH"}]

\* C19: the status of an error result is 500 if an error of the list has
\* code DB or INTERNAL, wherever it stands; otherwise the status of the first
\* error whose code is in the map (EXISTS 409, NOT_FOUND 404, BAD_REQ 400,
\* AUTH 401); otherwise 400, as for REQUIRED, BAD_VAL, BAD_RANGE and BAD_ID.
C19_StatusOfErrors ==
    (last.op = "mapResultErrors" /\ ~last.req.thrown)
    => (/\ last.res.body.status = last.res.http
        /\ last.res.body.errors = last.req.errors
        /\ last.res.http =
             IF \E i \in 1..Len(last.req.errors) :
                    last.req.errors[i].code \in {"DB", "INTERNAL"}
             THEN 500
             ELSE IF \E i \in 1..Len(last.req.errors) :
                    last.req.errors[i].code
                        \in {"EXISTS", "NOT_FOUND", "BAD_REQ", "AUTH"}
             THEN MappedStatus(FirstMapped(Codes(last.req)))
             ELSE 400)

\* C19 witness: BAD_VAL, then EXISTS, then DB was mapped to 500
C19_Witness ==
    /\ last.op = "mapResultErrors"
    /\ ~last.req.thrown
    /\ Codes(last.req) = <<"BAD_VAL", "EXISTS", "DB">>
    /\ last.res.http = 500

\* the stored documents of the id, as a find returns them
StoredAs(collection, id) ==
    {[k \in DOMAIN collection[i] \ {"_id"} |-> collection[i][k]] :
        i \in {j \in 1..Len(collection) : collection[j].id = id}}

\* the answer to a GET for the entity of the id in the collection
GetAnswers(collection, id, response) ==
    /\ Cardinality(StoredAs(collection, id)) = 1
       => (/\ response.http = 200
           /\ response.body.isOk
           /\ response.body.result \in StoredAs(collection, id))
    /\ StoredAs(collection, id) = {}
       => (/\ response.http = 404
           /\ ~response.body.isOk
           /\ Len(response.body.errors) = 1
           /\ response.body.errors[1].code = "NOT_FOUND")

\* C20: GET /sensor-types/:id and GET /sensors/:id answer 200 with the stored
\* entity when one stored entity has the id, and 404 with isOk false and the
\* one error NOT_FOUND when none has; SensorsInfo itself never returns
\* NOT_FOUND: its find for an id that nothing has is an ok result with [].
C20_GetOneOrNotFound ==
    /\ last.op = "doGetSensorType"
       => GetAnswers(db.sensorTypes, last.req.sensorTypeId, last.res)
    /\ last.op = "doGetSensor"
       => GetAnswers(db.sensors, last.req.sensorId, last.res)
    /\ last.op \in {"clear", "addSensorType", "addSensor", "findSensorTypes",
                    "findSensors"}
       => \A i \in 1..Len(last.res.errors) : last.res.errors[i].code # "NOT_FOUND"
    /\ (last.op = "findSensorTypes" /\ "id" \in DOMAIN last.req
           /\ StoredAs(db.sensorTypes, last.req.id) = {})
       => last.res = okResult(<<>>)
    /\ (last.op = "findSensors" /\ "id" \in DOMAIN last.req
           /\ StoredAs(db.sensors, last.req.id) = {})
       => last.res = okResult(<<>>)

\* C20 witness: with sensor types ab and b stored, GET /sensor-types/ab was
\* answered 200 with the sensor type ab
C20_Witness ==
    /\ last.op = "doGetSensorType"
    /\ last.req.sensorTypeId = "ab"
    /\ IdsOf(db.sensorTypes) = {"ab", "b"}
    /\ last.res.http = 200
    /\ last.res.body.result.id = "ab"

\* the whole numbers that the query's count and index stand for
Whole(q, k) == Tenths(q[k]) \div 10

Max0(n) == IF n < 0 THEN 0 ELSE n

\* C21: a paged GET with index >= 0 and count >= 1 carries at most count
\* results; it has a next link exactly if more than index + count entities
\* match, and that link's index is index + count; it has a prev link exactly
\* if index > 0, and that link's index is max(0, index - count).
C21_PageLinks ==
    (/\ last.op = "doFindSensorTypes"
     /\ DOMAIN last.req = {"count", "index"}
     /\ last.req.count \in IntegerStrings /\ Whole(last.req, "count") >= 1
     /\ last.req.index \in IntegerStrings)
    => (/\ last.res.http = 200
        /\ Len(last.res.body.result) <= Whole(last.req, "count")
        /\ "next" \in DOMAIN last.res.body.links
             <=> Len(db.sensorTypes)
                   > Whole(last.req, "index") + Whole(last.req, "count")
        /\ "next" \in DOMAIN last.res.body.links
             => Whole(last.res.body.links.next, "index")
                  = Whole(last.req, "index") + Whole(last.req, "count")
        /\ "prev" \in DOMAIN last.res.body.links <=> Whole(last.req, "index") > 0
        /\ "prev" \in DOMAIN last.res.body.links
             => Whole(last.res.body.links.prev, "index")
                  = Max0(Whole(last.req, "index") - Whole(last.req, "count")))

\* C21 witness: of four sensor types, the page of two from index 1 has a
\* next link to index 3 and a prev link to index 0
C21_Witness ==
    /\ last.op = "doFindSensorTypes"
    /\ last.req = [count |-> "2", index |-> "1"]
    /\ Len(db.sensorTypes) = 4
    /\ Len(last.res.body.result) = 2
    /\ DOMAIN last.res.body.links = {"next", "prev"}
    /\ last.res.body.links.next.index = "3"
    /\ last.res.body.links.prev.index = "0"

\* C22: addSensor validates, then looks the sensor type up, then compares
\* the ranges, and stops at the first check that fails: a request that fails
\* validation yields neither BAD_ID nor the BAD_RANGE of the limits, even if
\* it names no stored type, and a valid request that names no stored type
\* yields the one error BAD_ID, whatever its min and max.
C22_ChecksInOrder ==
    last.op = "addSensor"
    => (/\ ~ValidSensorReq(last.req)
           => (/\ ~last.res.isOk
               /\ ~last.res.thrown
               /\ \A i \in 1..Len(last.res.errors) :
                      /\ last.res.errors[i].code # "BAD_ID"
                      /\ last.res.errors[i].code = "BAD_RANGE"
                           => Reversed(last.req, "min", "max"))
        /\ (ValidSensorReq(last.req)
               /\ last.req.sensorTypeId \notin IdsOf(StoredTypes))
           => (~last.res.isOk /\ Codes(last.res) = <<"BAD_ID">>))

\* C22 witness: a valid request whose min is below every limit and whose
\* sensor type is not stored was refused with BAD_ID
C22_Witness ==
    /\ last.op = "addSensor"
    /\ ValidSensorReq(last.req)
    /\ last.req.min = "9"
    /\ last.req.sensorTypeId = "b"
    /\ Codes(last.res) = <<"BAD_ID">>

\* C23: an add of any kind that returns an error result leaves the three
\* collections as they were before the call.
C23_FailedAddStoresNothing ==
    [][(/\ last'.op \in {"addSensorType", "addSensor", "addSensorReading"}
        /\ ~last'.res.isOk)
       => UNCHANGED <<sensorTypes, sensors, sensorReadings, db>>]_vars

\* C23 witness: the prj3 revision has refused a sensor whose id it holds
C23_Witness ==
    /\ last.op = "addSensor"
    /\ Codes(last.res) = <<"EXISTS">>
    /\ Len(db.sensors) = 1

\* the sensor's expected range lies within the limits of the stored sensor
\* type it names
Contained(sensor, types) ==
    \E i \in 1..Len(types) :
        /\ types[i].id = sensor.sensorTypeId
        /\ types[i].limits.min.v <= sensor.expected.min.v
        /\ sensor.expected.max.v <= types[i].limits.max.v

\* C24: in the in-memory revision the expected range of a sensor is compared
\* with the limits of its type only when the sensor is added: the re-add of a
\* stored sensor type on a valid request succeeds whatever its limits, stores
\* them, and leaves the stored sensors as they are.
C24_LimitsCheckedAtAddOnly ==
    [][(/\ variant = "mem"
        /\ last'.op = "addSensorType"
        /\ ValidSensorTypeReq(last'.req)
        /\ last'.req.id \in IdsOf(sensorTypes))
       => (/\ last'.res.isOk
           /\ sensors' = sensors
           /\ IdsOf(sensorTypes') = IdsOf(sensorTypes)
           /\ \A i \in 1..Len(sensorTypes') :
                  sensorTypes'[i].id = last'.req.id
                  => (/\ sensorTypes'[i].limits.min.v = Tenths(last'.req.min)
                      /\ sensorTypes'[i].limits.max.v = Tenths(last'.req.max)))
      ]_vars

\* C24 witness: a sensor type was re-added with the limits [10, 10] while a
\* sensor of that type with the expected range [10, 100] is stored, and so the
\* stored sensor is no longer within the limits of its stored type
C24_Witness ==
    /\ variant = "mem"
    /\ last.op = "addSensorType"
    /\ last.res.isOk
    /\ last.req.max = "10"
    /\ \E i \in 1..Len(sensors) :
           /\ sensors[i].sensorTypeId = last.req.id
           /\ sensors[i].expected.max.v = 1000
           /\ ~Contained(sensors[i], sensorTypes)

\* C25: in the prj3 revision the insert of addSensor does not look at the
\* sensor types again: once the lookup has found the type, the insert of a
\* sensor whose id is not stored succeeds and stores the sensor, whether or
\* not a clear of the other caller has removed the type in between.
C25_InsertAfterLookup ==
    [][\A c \in Callers :
          (/\ last.op = "calls" /\ last'.op = "calls"
           /\ last.calls[c].pc = "insertSensor"
           /\ last'.calls[c].pc = "done"
           /\ last.calls[c].val.id \notin IdsOf(db.sensors))
          => (/\ last'.calls[c].res.isOk
              /\ last.calls[c].val.id \in IdsOf(db'.sensors))
      ]_vars

\* C25 witness: addSensor has succeeded while the clear of the other caller
\* ran, and the stored sensor names a sensor type that is not stored
C25_Witness ==
    /\ last.op = "calls"
    /\ \E c, d \in Callers :
           /\ last.calls[c].op = "addSensor"
           /\ last.calls[c].pc = "done"
           /\ last.calls[c].res.isOk
           /\ last.calls[d].op = "clear"
    /\ \E i \in 1..Len(db.sensors) :
           db.sensors[i].sensorTypeId \notin IdsOf(db.sensorTypes)

\* C26: in the second revision of the prj2 data access object,
\* findSensorReadings returns the readings in ascending order of timestamp,
\* whatever the order of their inserts.
C26_SortedByTimestamp ==
    last.op = "findSensorReadings" /\ variant = "prj2"
    => \A i, j \in 1..Len(last.res.val) :
           i < j => LE(last.res.val[i].timestamp, last.res.val[j].timestamp)

\* C26: what the code does: the readings come in the order of their inserts
C26_SortedByInsert ==
    last.op = "findSensorReadings" /\ variant = "prj2"
    => last.res.val = Projected(SelectSeq(db.sensorReadings,
                          LAMBDA doc : getFindSensorReadingsQuery(last.req, doc)))

\* C26 witness: a find of readings that were inserted later first
C26_Witness ==
    /\ last.op = "findSensorReadings" /\ variant = "prj2"
    /\ Len(last.res.val) >= 2
    /\ LT(last.res.val[2].timestamp, last.res.val[1].timestamp)

\* the unique key of the entity an add call is to store
KeyOf(call) ==
    IF call.op = "addSensorReading" THEN <<call.req.sensorId, call.req.timestamp>>
    ELSE <<call.req.id>>

\* the stored entities that have the key of the add call
WithKeyOf(call, store) ==
    IF call.op = "addSensorType"
    THEN {i \in 1..Len(store.sensorTypes) : store.sensorTypes[i].id = call.req.id}
    ELSE IF call.op = "addSensor"
    THEN {i \in 1..Len(store.sensors) : store.sensors[i].id = call.req.id}
    ELSE {i \in 1..Len(store.sensorReadings) :
              /\ store.sensorReadings[i].sensorId = call.req.sensorId
              /\ store.sensorReadings[i].timestamp = Number(call.req.timestamp)}

\* the entity the add call refers to is stored
Resolves(call, store) ==
    IF call.op = "addSensorType" THEN TRUE
    ELSE IF call.op = "addSensor"
    THEN call.req.sensorTypeId \in IdsOf(store.sensorTypes)
    ELSE call.req.sensorId \in IdsOf(store.sensors)

\* two adds of the same key, which was free when they were made, have both
\* returned
SameKeyAdded ==
    /\ last.op = "calls"
    /\ last.calls[1].op = last.calls[2].op
    /\ last.calls[1].op # "clear"
    /\ KeyOf(last.calls[1]) = KeyOf(last.calls[2])
    /\ WithKeyOf(last.calls[1], last.before) = {}
    /\ Resolves(last.calls[1], last.before)
    /\ \A c \in Callers : last.calls[c].pc = "done"

IsExists(res) == ~res.isOk /\ Codes(res) = <<"EXISTS">>

MatchingTypes(q) ==
    {i \in 1..Len(db.sensorTypes) :
        "manufacturer" \in DOMAIN q => db.sensorTypes[i].manufacturer = q.manufacturer}

\* pages holds every sensor type that q matches, once, in ascending order of id
FullSortedMatchSet(pages, q) ==
    /\ Len(pages) = Cardinality(MatchingTypes(q))
    /\ \A i \in MatchingTypes(q) : \E j \in 1..Len(pages) :
           pages[j] = Projected(db.sensorTypes)[i]
    /\ \A i, j \in 1..Len(pages) : i < j => IdRank(pages[i].id) < IdRank(pages[j].id)

\* C28: with the store unchanged and count >= 1, a client that starts at
\* index 0 and follows the next links comes to a page without a next link,
\* and the pages it has got are together the full sorted match set, each
\* entity once.
C28_BrowseReachesAll ==
    (last.op = "browse")
        ~> (/\ last.op = "browse"
            /\ ~HasNext(last.res)
            /\ FullSortedMatchSet(last.pages, last.req))

\* C28 witness: the third and last page of a walk over three sensor types,
\* one to a page
C28_Witness ==
    /\ last.op = "browse"
    /\ ~HasNext(last.res)
    /\ DOMAIN last.req = {"count", "index"}
    /\ last.req.count = "1"
    /\ last.req.index = "2"
    /\ Len(last.pages) = 3
    /\ FullSortedMatchSet(last.pages, last.req)

\* the paging values of the request that the store can apply: index a
\* non-negative integer and count a positive integer
AppliablePaging(req) ==
    /\ "index" \in DOMAIN req => req.index \in IntegerStrings
    /\ "count" \in DOMAIN req => req.count \in IntegerStrings /\ Tenths(req.count) >= 10

\* C29: a find in the prj3 revision whose index is not a non-negative integer
\* or whose count is not a positive integer is rejected with BAD_VAL.
C29_PagingValuesChecked ==
    (last.op = "findSensorTypes" /\ variant = "dao" /\ ~AppliablePaging(last.req))
    => (~last.res.isOk /\ \E i \in 1..Len(last.res.errors) :
                              last.res.errors[i].code = "BAD_VAL")

\* C29: what the code checks: a find is rejected with BAD_VAL exactly if a
\* paging value is no number, signed and fractional numbers included
C29_PagingValuesAreNumbers ==
    (last.op = "findSensorTypes" /\ variant = "dao")
    => ((~last.res.isOk /\ \E i \in 1..Len(last.res.errors) :
                               last.res.errors[i].code = "BAD_VAL")
        <=> \E k \in {"count", "index"} \cap DOMAIN last.req :
                last.req[k] \notin NumericStrings)

\* C29 witness: a find with count 0 passes validation and returns all three
\* stored sensor types
C29_Witness ==
    /\ last.op = "findSensorTypes" /\ variant = "dao"
    /\ last.req = [count |-> "0"]
    /\ last.res.isOk
    /\ Len(last.res.val) = 3

====
